---------------------------- MODULE Spec2Model ----------------------------
(***************************************************************************)
(* Model of sbom-compile-order: the dependency graph and its compilation   *)
(* order (graph.py), the hash cache that gates the regeneration of         *)
(* compile-order.csv (hash_cache.py, cli.py), and the artifact downloaders *)
(* (package_downloader.py, npm_package_downloader.py, pom_downloader.py).  *)
(***************************************************************************)
EXTENDS Integers, Sequences, FiniteSets, TLC

(***************************************************************************)
(* Bounds and input universes                                              *)
(***************************************************************************)
Ids == {"a", "b", "c"}          \* component identifiers
MaxEdges == 4                   \* edges a graph may hold
MaxParserComponents == 2        \* components in one parsed SBOM
MaxParserDeps == 2              \* (ref, dependsOn) entries in one parsed SBOM
MaxRawUrls == 2                 \* raw POM URLs generated for one repository
MaxRows == 2                    \* rows of one compile-order.csv
MaxRuns == 3                    \* calls of create_enhanced_csv counted in a row
MaxListed == 4                  \* dependencies listed on all repository pages together
MaxDepth == 2                   \* largest max_depth (--max-dependency-depth)
MaxPomFiles == 11               \* *.pom files in the POM cache directory
max_iterations == 10            \* extract_all_dependencies: max_iterations
MaxNewDeps == 21                \* entries of new_dependencies
MaxRepeated == 2                \* of them repeated or in compile-order.csv
leaves_max_iterations == 20     \* create_leaves_csv: max_iterations
MaxTasks == 3                   \* download tasks of one ParallelDownloader
max_workers == 2                \* ParallelDownloader.max_workers
MaxTime == 7                    \* last tick of the clock
MaxRequests == 3                \* requests one registry client issues
RATE_LIMIT_DELAY == 2           \* RATE_LIMIT_DELAY = 0.1 s, in ticks of 50 ms

None == <<"None">>               \* Python's None, an absent file

SbomContents == {"s1", "s2"}    \* well-formed CycloneDX documents
BadSbom == "bad"                \* a document SBOMParser.parse rejects
FilterConfigs == {"F1", "F2"}   \* (ignore-group-ids, exclude-types, exclude-package-types)
Paths == {"default", "custom"}  \* cache/compile-order.csv, and a path given with -o
Formats == {"csv", "text"}

VARIABLES
    g_nodes,        \* DependencyGraph.graph: node ids in insertion order
    g_succ,         \* DependencyGraph.graph: adjacency, successors in insertion order
    g_called,       \* get_compilation_order has returned for the current graph
    g_order,        \* the list it returned
    g_circular,     \* the flag it returned
    g_stats,        \* the dictionary get_statistics returned for the current graph
    c_pc,           \* position of cli.main in the current run ("idle" between runs)
    c_sbom,         \* bytes of the SBOM file
    c_files,        \* bytes of the file at each output path, or None
    c_enhanced,     \* bytes of cache/enhanced.csv, or None
    c_md5,          \* cache/sbom.md5, compile-order.csv.md5, enhanced.csv.md5
    c_opts,         \* args of the current run
    c_run,          \* locals of the current run: sbom_hash, needs_regen, incremental
    h_start,        \* history: persisted digests and base bytes when the run started
    h_last,         \* history: source bytes and args of the last completed run,
                    \* forgotten when a file is changed from outside
    f_cfg,          \* the artifact kind and the downloader's settings
    f_cache,        \* the file at the artifact's cache path
    f_call,         \* per caller: position and locals of its download call
    e_pc,           \* position of create_enhanced_csv ("idle" between calls)
    e_cfg,          \* its arguments and what it found when it started
    e_order,        \* rows of compile-order.csv as it read them
    e_existing,     \* existing_enhanced_rows: the previous enhanced.csv by row key
    e_enhanced,     \* cache/enhanced.csv on disk: whether it exists, its rows
    e_poms,         \* row keys whose POM file is in cache/poms
    e_i,            \* index of the row the loop is at
    e_calls,        \* row keys passed to download_pom in this call, in order
    e_runs,         \* the arguments of the last call and how many calls in a row had
                    \* them, with no POM file removed and none fetched from the network
    p_cfg,          \* ParallelDownloader: which downloaders it was given
    p_csv,          \* components of the rows of compile-order.csv
    p_main,         \* position of the thread that owns the ParallelDownloader
    p_wait,         \* what its wait_for_completion returned
    p_worker,       \* position of the download_worker thread
    p_running,      \* ParallelDownloader._running
    p_tasks,        \* download_tasks with the state of each task's future
    p_results,      \* ParallelDownloader._results
    r_now,          \* time.time(), in ticks
    r_last,         \* the client's _last_request_time
    r_thread,       \* per thread: position in _rate_limit and its locals
    r_requests,     \* the times at which the client's requests started, in order
    l_call,         \* a download operation: downloader, position, what it returns
    l_lines,        \* lines the operation has written to the log file
    s_file,         \* the SBOM file at SBOMParser.sbom_path
    s_parser,       \* an SBOMParser: its fields and how parse() ended
    u_call,         \* a call of build_maven_central_url: arguments and outcome
    d_pages,        \* per package: the dependencies its repository page lists, in order
    d_call,         \* a call of resolve_from_compile_order_csv: arguments and outcome
    x_dir,          \* the *.pom files of the POM cache directory in glob order: what
                    \* _parse_pom_file gives for each
    x_new,          \* new_dependencies: the identifiers of its entries, in order
    x_call          \* a call of the POMDependencyExtractor: which method, what it gave

graphVars == <<g_nodes, g_succ, g_called, g_order, g_circular, g_stats>>
cacheVars == <<c_pc, c_sbom, c_files, c_enhanced, c_md5, c_opts, c_run,
               h_start, h_last>>
fetchVars == <<f_cfg, f_cache, f_call>>
enhanceVars == <<e_pc, e_cfg, e_order, e_existing, e_enhanced, e_poms, e_i, e_calls,
                 e_runs>>
rateVars == <<r_now, r_last, r_thread, r_requests>>
logVars == <<l_call, l_lines>>
parserVars == <<s_file, s_parser, u_call>>
poolVars == <<p_cfg, p_csv, p_main, p_wait, p_worker, p_running, p_tasks, p_results>>
resolveVars == <<d_pages, d_call>>
extractVars == <<x_dir, x_new, x_call>>
vars == <<graphVars, cacheVars, fetchVars, enhanceVars, poolVars, rateVars, logVars,
          parserVars, resolveVars, extractVars>>

(***************************************************************************)
(* Sequence helpers                                                        *)
(***************************************************************************)
Range(s) == {s[i] : i \in 1..Len(s)}

IndexOf(s, x) == IF x \in Range(s) THEN CHOOSE i \in 1..Len(s) : s[i] = x ELSE 0

AppendNew(s, x) == IF x \in Range(s) THEN s ELSE Append(s, x)

RECURSIVE RemoveAll(_, _)
RemoveAll(s, X) ==
    IF s = <<>> THEN <<>>
    ELSE IF Head(s) \in X THEN RemoveAll(Tail(s), X)
         ELSE <<Head(s)>> \o RemoveAll(Tail(s), X)

(***************************************************************************)
(* networkx.DiGraph as used by DependencyGraph                             *)
(***************************************************************************)
EdgesOf(succ) == {<<u, v>> \in Ids \X Ids : v \in Range(succ[u])}

\* DiGraph.add_node: an existing node keeps its position
AddNode(nodes, n) == AppendNew(nodes, n)

\* DiGraph.add_edge(u, v): an existing edge keeps its position
AddEdge(succ, u, v) == [succ EXCEPT ![u] = AppendNew(@, v)]

\* DiGraph.remove_edge on a set of edges
RemoveEdges(succ, R) ==
    [u \in Ids |-> RemoveAll(succ[u], {v \in Ids : <<u, v>> \in R})]

InDegree(succ, v) == Cardinality({u \in Ids : v \in Range(succ[u])})

\* nx.topological_sort: Kahn's algorithm over generations; the flattened
\* generations are the FIFO queue of nodes whose in-degree has reached zero.
\* mutant: a child is emitted as soon as one predecessor has been emitted
RECURSIVE KahnChildren_FirstVisit(_, _, _)
KahnChildren_FirstVisit(children, indeg, queue) ==
    IF children = <<>> THEN [indeg |-> indeg, queue |-> queue]
    ELSE LET c == Head(children)
         IN KahnChildren_FirstVisit(Tail(children), indeg, AppendNew(queue, c))

RECURSIVE KahnChildren(_, _, _)
KahnChildren(children, indeg, queue) ==
    IF children = <<>> THEN [indeg |-> indeg, queue |-> queue]
    ELSE LET c == Head(children)
             d == indeg[c] - 1
         IN KahnChildren(Tail(children),
                         [indeg EXCEPT ![c] = d],
                         IF d = 0 THEN Append(queue, c) ELSE queue)

RECURSIVE KahnRun(_, _, _, _)
KahnRun(succ, indeg, queue, i) ==
    IF i > Len(queue) THEN queue
    ELSE LET r == KahnChildren(succ[queue[i]], indeg, queue)
         IN KahnRun(succ, r.indeg, r.queue, i + 1)

\* mutant: the nodes without predecessors start the order last-added first
ZeroInDegree_Reversed(nodes, succ) ==
    LET z == RemoveAll(nodes, {v \in Ids : InDegree(succ, v) > 0})
    IN [i \in 1..Len(z) |-> z[Len(z) + 1 - i]]

ZeroInDegree(nodes, succ) == RemoveAll(nodes, {v \in Ids : InDegree(succ, v) > 0})

\* ok = FALSE stands for NetworkXUnfeasible
TopologicalSort(nodes, succ) ==
    LET q == KahnRun(succ, [v \in Ids |-> InDegree(succ, v)], ZeroInDegree(nodes, succ), 1)
    IN [ok |-> Len(q) = Len(nodes), order |-> q]

\* nodes reachable from u by one or more edges that stay inside S
RECURSIVE ReachIn(_, _, _)
ReachIn(succ, S, F) ==
    LET N == F \cup {v \in S : \E u \in F : v \in Range(succ[u])}
    IN IF N = F THEN F ELSE ReachIn(succ, S, N)

ReachFrom(succ, S, u) == ReachIn(succ, S, {v \in S : v \in Range(succ[u])})

\* the strongly connected component of u in the subgraph induced by S
SccOf(succ, S, u) == {u} \cup {v \in S : v \in ReachFrom(succ, S, u) /\ u \in ReachFrom(succ, S, v)}

\* the components nx.simple_cycles searches: two nodes or more
BigSccs(succ, S) == {c \in {SccOf(succ, S, u) : u \in S} : Cardinality(c) >= 2}

\* number of simple paths from x to target through nodes of avail
RECURSIVE NumPaths(_, _, _, _)
RECURSIVE SumPaths(_, _, _, _)
NumPaths(succ, x, target, avail) ==
    IF x = target THEN 1
    ELSE SumPaths(succ, {w \in avail : w \in Range(succ[x])}, target, avail)
SumPaths(succ, W, target, avail) ==
    IF W = {} THEN 0
    ELSE LET w == CHOOSE w \in W : TRUE
         IN NumPaths(succ, w, target, avail \ {w}) + SumPaths(succ, W \ {w}, target, avail)

\* nx.simple_cycles (Johnson's search): in a component c the search starts at
\* one node v taken from the set c, so each cycle through v is listed as
\* [v, ..., u] and its closing edge (cycle[-1], cycle[0]) is (u, v); then v is
\* removed and the components of what is left are searched.  Which v is taken
\* from the set is not fixed by the code.  An outcome is the set of closing
\* edges of the cycles of two nodes or more, and whether two listed cycles
\* have the same closing edge.
ClosingEdges(succ, c, v) == {<<u, v>> : u \in {u \in c : u # v /\ v \in Range(succ[u])}}

SharedClosing(succ, c, v) ==
    \E u \in c : u # v /\ v \in Range(succ[u]) /\ NumPaths(succ, v, u, c \ {v}) >= 2

RECURSIVE CycleOutcomes(_, _)
CycleOutcomes(succ, S) ==
    IF BigSccs(succ, S) = {} THEN {[rem |-> {}, dup |-> FALSE]}
    ELSE LET c == CHOOSE c \in BigSccs(succ, S) : TRUE
         IN UNION {
              { [rem |-> ClosingEdges(succ, c, v) \cup o1.rem \cup o2.rem,
                 dup |-> SharedClosing(succ, c, v) \/ o1.dup \/ o2.dup]
                : o1 \in CycleOutcomes(succ, c \ {v}), o2 \in CycleOutcomes(succ, S \ c) }
              : v \in c }

\* mutant: when the cycles cannot be broken, the partial order is returned
CompilationOrder_Partial(nodes, succ, o) ==
    LET first == TopologicalSort(nodes, succ)
        temp == TopologicalSort(nodes, RemoveEdges(succ, o.rem))
    IN IF first.ok THEN [order |-> first.order, circular |-> FALSE]
       ELSE [order |-> temp.order, circular |-> TRUE]

\* mutant: the flag is set only when the cycles could not be broken
CompilationOrder_FlagOnFallback(nodes, succ, o) ==
    LET first == TopologicalSort(nodes, succ)
        temp == TopologicalSort(nodes, RemoveEdges(succ, o.rem))
    IN IF first.ok THEN [order |-> first.order, circular |-> FALSE]
       ELSE IF ~o.dup /\ temp.ok THEN [order |-> temp.order, circular |-> FALSE]
            ELSE [order |-> nodes, circular |-> TRUE]

\* DependencyGraph.get_compilation_order, given the outcome o of simple_cycles
CompilationOrder(nodes, succ, o) ==
    LET first == TopologicalSort(nodes, succ)
        temp == TopologicalSort(nodes, RemoveEdges(succ, o.rem))
    IN IF first.ok THEN [order |-> first.order, circular |-> FALSE]
       ELSE IF o.dup
            \* temp_graph.remove_edge raises on the second removal of an edge
            THEN [order |-> nodes, circular |-> TRUE]
            ELSE IF temp.ok THEN [order |-> temp.order, circular |-> TRUE]
                 ELSE [order |-> nodes, circular |-> TRUE]

(***************************************************************************)
(* DependencyGraph operations                                              *)
(***************************************************************************)
NoStats == [exists |-> FALSE]

InitGraphVars ==
    /\ g_nodes = <<>>
    /\ g_succ = [u \in Ids |-> <<>>]
    /\ g_called = FALSE
    /\ g_order = <<>>
    /\ g_circular = FALSE
    /\ g_stats = NoStats

NumEdges(succ) == Cardinality(EdgesOf(succ))

\* DependencyGraph.add_component
add_component(id) ==
    /\ g_nodes' = AddNode(g_nodes, id)
    /\ g_called' = FALSE
    /\ g_order' = <<>>
    /\ g_circular' = FALSE
    /\ g_stats' = NoStats
    /\ UNCHANGED <<g_succ, cacheVars, fetchVars, enhanceVars, poolVars, rateVars, logVars, parserVars, resolveVars, extractVars>>

\* DependencyGraph.add_dependency
add_dependency(component_ref, dependency_ref) ==
    /\ NumEdges(AddEdge(g_succ, dependency_ref, component_ref)) <= MaxEdges
    /\ g_nodes' = AddNode(AddNode(g_nodes, component_ref), dependency_ref)
    /\ g_succ' = AddEdge(g_succ, dependency_ref, component_ref)
    /\ g_called' = FALSE
    /\ g_order' = <<>>
    /\ g_circular' = FALSE
    /\ g_stats' = NoStats
    /\ UNCHANGED <<cacheVars, fetchVars, enhanceVars, poolVars, rateVars, logVars, parserVars, resolveVars, extractVars>>

\* mutant: the closing edges are removed from the graph itself, not from a copy
get_compilation_order_InPlace ==
    /\ ~g_called
    /\ \E o \in CycleOutcomes(g_succ, Range(g_nodes)) :
          LET r == CompilationOrder(g_nodes, g_succ, o)
          IN /\ g_order' = r.order
             /\ g_circular' = r.circular
             /\ g_succ' = IF o.dup THEN g_succ ELSE RemoveEdges(g_succ, o.rem)
    /\ g_called' = TRUE
    /\ UNCHANGED <<g_nodes, g_stats, cacheVars, fetchVars, enhanceVars, poolVars, rateVars,
                   logVars, parserVars, resolveVars, extractVars>>

\* DependencyGraph.get_compilation_order
get_compilation_order ==
    /\ ~g_called
    /\ \E o \in CycleOutcomes(g_succ, Range(g_nodes)) :
          LET r == CompilationOrder(g_nodes, g_succ, o)
          IN /\ g_order' = r.order
             /\ g_circular' = r.circular
    /\ g_called' = TRUE
    /\ UNCHANGED <<g_nodes, g_succ, g_stats, cacheVars, fetchVars, enhanceVars, poolVars, rateVars, logVars, parserVars, resolveVars, extractVars>>

\* nx.number_strongly_connected_components
NumberStronglyConnected(nodes, succ) ==
    LET S == Range(nodes)
    IN Cardinality({ {v} \cup {w \in S : w \in ReachFrom(succ, S, v) /\ v \in ReachFrom(succ, S, w)} :
                     v \in S })

\* DependencyGraph.has_circular_dependencies: nx.topological_sort is a
\* generator function, the call only makes the generator; nothing is computed
\* and nothing is raised before the first item is asked for, and none is
has_circular_dependencies(nodes, succ) == FALSE

\* DependencyGraph.get_statistics
get_statistics ==
    /\ ~g_stats.exists
    /\ g_stats' = [exists |-> TRUE,
                   total_components |-> Len(g_nodes),
                   total_dependencies |-> NumEdges(g_succ),
                   has_circular_dependencies |-> has_circular_dependencies(g_nodes, g_succ),
                   strongly_connected_components |-> NumberStronglyConnected(g_nodes, g_succ)]
    /\ UNCHANGED <<g_nodes, g_succ, g_called, g_order, g_circular,
                   cacheVars, fetchVars, enhanceVars, poolVars, rateVars, logVars, parserVars, resolveVars, extractVars>>

\* the parser's components dict: distinct identifiers in insertion order
ParserComponents ==
    {s \in UNION {[1..n -> Ids] : n \in 0..MaxParserComponents} :
        \A i, j \in 1..Len(s) : i # j => s[i] # s[j]}

\* the parser's dependencies dict, flattened: (component ref, dependency ref)
ParserDependencies == UNION {[1..n -> Ids \X Ids] : n \in 0..MaxParserDeps}

RECURSIVE AddComponents(_, _)
AddComponents(nodes, comps) ==
    IF comps = <<>> THEN nodes
    ELSE AddComponents(AddNode(nodes, Head(comps)), Tail(comps))

\* the loop over dependencies.items() of build_from_parser
RECURSIVE AddParsedDependencies(_, _, _)
AddParsedDependencies(g, deps, known) ==
    IF deps = <<>> THEN g
    ELSE LET component_ref == Head(deps)[1]
             dep_ref == Head(deps)[2]
             comp == component_ref \in known
             dep_comp == dep_ref \in known
             add == (comp /\ dep_comp) \/ dep_ref \in known
             g2 == IF add
                   THEN [nodes |-> AddNode(AddNode(g.nodes, component_ref), dep_ref),
                         succ |-> AddEdge(g.succ, dep_ref, component_ref)]
                   ELSE g
         IN AddParsedDependencies(g2, Tail(deps), known)

\* DependencyGraph.build_from_parser, called as cli.main calls it: on the
\* graph it has just constructed
build_from_parser(components, dependencies) ==
    LET g == AddParsedDependencies(
                 [nodes |-> AddComponents(g_nodes, components), succ |-> g_succ],
                 dependencies, Range(components))
    IN /\ g_nodes = <<>>
       /\ NumEdges(g.succ) <= MaxEdges
       /\ g_nodes' = g.nodes
       /\ g_succ' = g.succ
       /\ g_called' = FALSE
       /\ g_order' = <<>>
       /\ g_circular' = FALSE
       /\ g_stats' = NoStats
       /\ UNCHANGED <<cacheVars, fetchVars, enhanceVars, poolVars, rateVars, logVars, parserVars, resolveVars, extractVars>>

(***************************************************************************)
(* The hash cache and the runs of cli.main                                 *)
(***************************************************************************)
\* hashlib.md5 over the file's bytes: distinct bytes give distinct digests
Md5(content) == <<"md5">> \o content

\* hash_cache.calculate_file_hash: None when the file does not exist
calculate_file_hash(file) == IF file = None THEN None ELSE Md5(file)

\* bytes written by CSVFormatter.format_incremental: 17-column header, one row
\* per component of the filtered SBOM, no lookups
BaseCsv(sbom, filters) == <<"format_incremental", sbom, filters>>

\* string returned by formatter.format: 12-column header, rows with the
\* results of the lookups
FormatOutput(sbom, filters) == <<"format", sbom, filters>>

\* bytes written by create_enhanced_csv: the rows read from compile-order.csv
\* with the results of the lookups
EnhancedCsv(base) == <<"enhanced">> \o base

\* bytes some other program left in a file
Edited == <<"edited">>

\* args after the auto-enable rules of main: --poms turns the lookups on
Args == {a \in [output : Paths, format : Formats, pull_package : BOOLEAN,
                maven_central_lookup : BOOLEAN, poms : BOOLEAN,
                filters : FilterConfigs] : a.poms => a.maven_central_lookup}

NoArgs == [output |-> "default", format |-> "csv", pull_package |-> FALSE,
           maven_central_lookup |-> FALSE, poms |-> FALSE, filters |-> "F1"]

\* _start_parallel_downloads: returns None when there is nothing to download;
\* otherwise it constructs ParallelDownloader with the keywords
\* artifact_downloader and artifact_types, which ParallelDownloader.__init__
\* does not accept, and the TypeError ends the run
StartParallelRaises(pom_downloader, package_downloader) ==
    pom_downloader \/ package_downloader

NoRun == [sbom_hash |-> None, needs_regen |-> TRUE, incremental |-> FALSE]

NoStart == [sbom_md5 |-> None, compile_order_md5 |-> None, base |-> None]

NoLast == [done |-> FALSE, sbom |-> "s1", opts |-> NoArgs]

InitCacheVars ==
    /\ c_pc = "idle"
    /\ c_sbom \in SbomContents
    /\ c_files = [p \in Paths |-> None]
    /\ c_enhanced = None
    /\ c_md5 = [sbom |-> None, compile_order |-> None, enhanced |-> None]
    /\ c_opts = NoArgs
    /\ c_run = NoRun
    /\ h_start = NoStart
    /\ h_last = NoLast

\* main, lines 343-361: the SBOM digest is computed and saved at once
StartRun(args) ==
    /\ c_pc = "idle"
    /\ c_pc' = "hashed"
    /\ c_opts' = args
    /\ c_run' = [NoRun EXCEPT !.sbom_hash = calculate_file_hash(<<c_sbom>>)]
    /\ c_md5' = [c_md5 EXCEPT !.sbom = calculate_file_hash(<<c_sbom>>)]
    /\ h_start' = [sbom_md5 |-> c_md5.sbom, compile_order_md5 |-> c_md5.compile_order,
                   base |-> c_files[args.output]]
    /\ UNCHANGED <<c_sbom, c_files, c_enhanced, h_last, graphVars, fetchVars, enhanceVars, poolVars, rateVars, logVars, parserVars, resolveVars, extractVars>>

EndRun(completed) ==
    /\ c_pc' = "idle"
    /\ c_opts' = NoArgs
    /\ c_run' = NoRun
    /\ h_start' = NoStart
    /\ h_last' = IF completed THEN [done |-> TRUE, sbom |-> c_sbom, opts |-> c_opts]
                 ELSE NoLast

\* main, lines 363-364 and 1213-1228: SBOMParser.parse raises, main exits
ParseFails ==
    /\ c_pc = "hashed"
    /\ c_sbom = BadSbom
    /\ EndRun(FALSE)
    /\ UNCHANGED <<c_sbom, c_files, c_enhanced, c_md5, graphVars, fetchVars, enhanceVars, poolVars, rateVars, logVars, parserVars, resolveVars, extractVars>>

\* main, lines 363-647: parse, filter, build the graph, compute the order
ParseOk ==
    /\ c_pc = "hashed"
    /\ c_sbom # BadSbom
    /\ c_pc' = "parsed"
    /\ UNCHANGED <<c_sbom, c_files, c_enhanced, c_md5, c_opts, c_run,
                   h_start, h_last, graphVars, fetchVars, enhanceVars, poolVars, rateVars, logVars, parserVars, resolveVars, extractVars>>

\* main, lines 687-741: compile_order_needs_regen
NeedsRegen(sbom_hash, file, md5) ==
    LET cached_sbom_hash == md5.sbom
        compile_order_hash == calculate_file_hash(file)
        cached_compile_order_hash == md5.compile_order
    IN IF file # None
       THEN IF sbom_hash # None /\ cached_sbom_hash # None /\ sbom_hash = cached_sbom_hash
            THEN ~(/\ compile_order_hash # None
                   /\ cached_compile_order_hash # None
                   /\ compile_order_hash = cached_compile_order_hash)
            ELSE TRUE
       ELSE TRUE

Decide ==
    /\ c_pc = "parsed"
    /\ c_opts.format = "csv"
    /\ c_pc' = "decided"
    /\ c_run' = [c_run EXCEPT !.needs_regen =
                    NeedsRegen(c_run.sbom_hash, c_files[c_opts.output], c_md5)]
    /\ UNCHANGED <<c_sbom, c_files, c_enhanced, c_md5, c_opts,
                   h_start, h_last, graphVars, fetchVars, enhanceVars, poolVars, rateVars, logVars, parserVars, resolveVars, extractVars>>

\* main, lines 745-777: write compile-order.csv and save its digest, or reuse it
WriteOrReuseBase ==
    /\ c_pc = "decided"
    /\ c_pc' = "based"
    /\ IF c_run.needs_regen
       THEN LET bytes == BaseCsv(c_sbom, c_opts.filters)
            IN /\ c_files' = [c_files EXCEPT ![c_opts.output] = bytes]
               /\ c_md5' = [c_md5 EXCEPT !.compile_order = calculate_file_hash(bytes)]
       ELSE UNCHANGED <<c_files, c_md5>>
    /\ UNCHANGED <<c_sbom, c_enhanced, c_opts, c_run, h_start, h_last,
                   graphVars, fetchVars, enhanceVars, poolVars, rateVars, logVars, parserVars, resolveVars, extractVars>>

\* main, lines 782-876, and create_enhanced_csv: enhanced.csv is rewritten from
\* the rows of compile-order.csv and its digest saved
Enhance ==
    /\ c_pc = "based"
    /\ ~(c_opts.maven_central_lookup
          /\ StartParallelRaises(c_opts.poms, c_opts.pull_package))
    /\ c_pc' = "enhanced"
    /\ IF c_opts.maven_central_lookup
       THEN LET base == c_files[c_opts.output]
                compile_order_hash == calculate_file_hash(base)
            IN /\ c_run' = [c_run EXCEPT !.incremental =
                               /\ c_enhanced # None
                               /\ compile_order_hash # None
                               /\ c_md5.compile_order # None
                               /\ compile_order_hash = c_md5.compile_order]
               /\ c_enhanced' = EnhancedCsv(base)
               /\ c_md5' = [c_md5 EXCEPT !.enhanced = calculate_file_hash(EnhancedCsv(base))]
       ELSE UNCHANGED <<c_run, c_enhanced, c_md5>>
    /\ UNCHANGED <<c_sbom, c_files, c_opts, h_start, h_last, graphVars, fetchVars, enhanceVars, poolVars, rateVars, logVars, parserVars, resolveVars, extractVars>>

\* main, lines 819-828 and 879-889: the background downloads cannot be
\* started, main exits through the last except clause
ParallelRaises ==
    /\ \/ /\ c_pc = "based"
          /\ c_opts.maven_central_lookup
          /\ StartParallelRaises(c_opts.poms, c_opts.pull_package)
       \/ /\ c_pc = "enhanced"
          /\ c_opts.pull_package /\ ~c_opts.maven_central_lookup
          /\ StartParallelRaises(FALSE, c_opts.pull_package)
    /\ EndRun(FALSE)
    /\ UNCHANGED <<c_sbom, c_files, c_enhanced, c_md5, graphVars, fetchVars, enhanceVars, poolVars, rateVars, logVars, parserVars, resolveVars, extractVars>>

\* main, lines 925-961, format csv: unless --pull-package is set without the
\* lookups, the else branch formats the whole output again and writes it to
\* args.output when -o was given, to stdout when not
FormatAgain ==
    /\ c_pc = "enhanced"
    /\ ~(c_opts.pull_package /\ ~c_opts.maven_central_lookup)
    /\ IF c_opts.output = "custom"
       THEN c_files' = [c_files EXCEPT !["custom"] = FormatOutput(c_sbom, c_opts.filters)]
       ELSE UNCHANGED c_files
    /\ EndRun(TRUE)
    /\ UNCHANGED <<c_sbom, c_enhanced, c_md5, graphVars, fetchVars, enhanceVars, poolVars, rateVars, logVars, parserVars, resolveVars, extractVars>>

\* main, lines 878-961, format text or json: output_path is not bound in the
\* first branch, and formatter.format does not take the nine arguments of the
\* else branch; either way main exits through the last except clause
FormatRaises ==
    /\ c_pc = "parsed"
    /\ c_opts.format # "csv"
    /\ EndRun(FALSE)
    /\ UNCHANGED <<c_sbom, c_files, c_enhanced, c_md5, graphVars, fetchVars, enhanceVars, poolVars, rateVars, logVars, parserVars, resolveVars, extractVars>>

\* between two runs the user edits the SBOM file
EditSbom(bytes) ==
    /\ c_pc = "idle"
    /\ bytes # c_sbom
    /\ c_sbom' = bytes
    /\ h_last' = NoLast
    /\ UNCHANGED <<c_pc, c_files, c_enhanced, c_md5, c_opts, c_run, h_start, graphVars, fetchVars, enhanceVars, poolVars, rateVars, logVars, parserVars, resolveVars, extractVars>>

\* between two runs another program rewrites or deletes an output file
EditOutput(path, bytes) ==
    /\ c_pc = "idle"
    /\ c_files[path] # None
    /\ c_files[path] # bytes
    /\ c_files' = [c_files EXCEPT ![path] = bytes]
    /\ h_last' = NoLast
    /\ UNCHANGED <<c_pc, c_sbom, c_enhanced, c_md5, c_opts, c_run, h_start, graphVars, fetchVars, enhanceVars, poolVars, rateVars, logVars, parserVars, resolveVars, extractVars>>

\* between two runs a digest file of the cache directory is deleted or made
\* unreadable: read_hash_from_file returns None for it
DigestFiles == {"sbom", "compile_order", "enhanced"}

LoseDigest(name) ==
    /\ c_pc = "idle"
    /\ c_md5[name] # None
    /\ c_md5' = [c_md5 EXCEPT ![name] = None]
    /\ h_last' = NoLast
    /\ UNCHANGED <<c_pc, c_sbom, c_files, c_enhanced, c_opts, c_run, h_start,
                   graphVars, fetchVars, enhanceVars, poolVars, rateVars, logVars, parserVars, resolveVars, extractVars>>

\* runs that write csv to the default path, without downloads
DigestArgs ==
    {a \in Args : a.format = "csv" /\ a.output = "default" /\ a.filters = "F1"
                  /\ ~a.poms /\ ~a.pull_package}

(***************************************************************************)
(* The downloaders: one component with complete coordinates, hence one     *)
(* cache key per artifact kind, and the threads that ask for its artifact  *)
(***************************************************************************)
Callers == {"t1", "t2"}
Kinds == {"pom", "jar", "npm"}

MinZipLen == 4
MinTarballLen == 100

\* a response body: its length, its leading magic bytes, whether it opens as
\* an archive with a readable entry list (for markup: whether it contains an
\* <artifactId> element), whether _pom_content_matches accepts it
Body(len, magic, wellformed, matches) ==
    [len |-> len, magic |-> magic, wellformed |-> wellformed, matches |-> matches]

EmptyBody == Body(0, "none", FALSE, FALSE)

JarBodies == {EmptyBody, Body(3, "none", FALSE, FALSE), Body(200, "html", FALSE, FALSE),
              Body(200, "zip", FALSE, FALSE), Body(200, "zip", TRUE, FALSE)}

NpmBodies == {EmptyBody, Body(50, "gzip", TRUE, FALSE), Body(200, "html", FALSE, FALSE),
              Body(200, "gzip", FALSE, FALSE), Body(200, "gzip", TRUE, FALSE)}

PomBodies == {EmptyBody, Body(200, "html", FALSE, FALSE), Body(200, "xml", FALSE, FALSE),
              Body(200, "xml", TRUE, FALSE), Body(200, "xml", TRUE, TRUE)}

\* what urlopen gives: a 200 with a body, an HTTPError, or a URLError
Statuses == {"200", "401", "403", "404", "500", "URLError"}

Responses(bodies) ==
    {[status |-> "200", body |-> b] : b \in bodies}
    \cup {[status |-> st, body |-> EmptyBody] : st \in Statuses \ {"200"}}

NoResponse == [status |-> "none", body |-> EmptyBody]

\* a validation that stops after the magic bytes
_validate_artifact_content_MagicOnly(b) ==
    /\ b.len # 0
    /\ b.len >= MinZipLen
    /\ b.magic = "zip"

\* PackageDownloader._validate_artifact_content
_validate_artifact_content(b) ==
    /\ b.len # 0
    /\ b.len >= MinZipLen
    /\ b.magic = "zip"
    /\ b.wellformed

\* NpmPackageDownloader._validate_tarball
_validate_tarball(b) ==
    /\ b.len # 0
    /\ b.len >= MinTarballLen
    /\ b.magic = "gzip"
    /\ b.wellformed

\* "<?xml" in pom_text and "<artifactId>" in pom_text
IsPomText(b) == b.magic = "xml" /\ b.wellformed

\* POMDownloader._pom_content_matches
_pom_content_matches(b) == b.matches

\* the (filename, auth_required) pair a call returns, or the exception it raises
Result(file, auth) == [file |-> file, auth |-> auth, raised |-> FALSE]
Raised == [file |-> FALSE, auth |-> FALSE, raised |-> TRUE]

\* a handler that takes only 401 as auth-required
HttpErrorResult_Only401(status) == Result(FALSE, status = "401")

\* except HTTPError in download_package: 401 and 403 mean auth-required
HttpErrorResult(status) == Result(FALSE, status \in {"401", "403"})

\* open(cached_artifact, "wb") and write: done, or open raises, or write raises
WriteOutcomes == {"written", "open_raises", "write_raises"}

FileAfterWrite(file, wo) ==
    IF wo = "written" THEN "validated"
    ELSE IF wo = "write_raises" THEN "unvalidated" ELSE file

\* outcomes of _download_artifact_with_maven and of _clone_or_update_repo
\* followed by _find_pom_in_repo and shutil.copy2
MavenOutcomes == {"valid", "invalid", "unreadable", "auth", "error"}
CloneOutcomes == {"auth", "failed", "notfound", "found", "copy_raises"}

Cfgs ==
    {[kind |-> "pom", poms |-> p, clone_repos |-> c, repo |-> r, use_maven |-> FALSE] :
        p \in BOOLEAN, c \in BOOLEAN, r \in BOOLEAN}
    \cup {[kind |-> "jar", poms |-> FALSE, clone_repos |-> FALSE, repo |-> FALSE,
           use_maven |-> m] : m \in BOOLEAN}
    \cup {[kind |-> "npm", poms |-> FALSE, clone_repos |-> FALSE, repo |-> FALSE,
           use_maven |-> FALSE]}

NoCall == [pc |-> "idle", i |-> 0, auth_detected |-> FALSE, tried |-> <<>>,
           last |-> NoResponse, auth_at |-> 0, result |-> Result(FALSE, FALSE)]

InitFetchVars ==
    /\ f_cfg = [kind |-> "npm", poms |-> FALSE, clone_repos |-> FALSE, repo |-> FALSE,
                use_maven |-> FALSE]
    /\ f_cache = "absent"
    /\ f_call = [t \in Callers |-> NoCall]

\* history kept in a call: the step just tried, the response it got, and the
\* position of the first step that reported 401/403 or an auth failure
Try(c, step, i, resp, auth) ==
    [c EXCEPT !.tried = Append(@, [step |-> step, i |-> i]),
              !.last = resp,
              !.auth_at = IF @ = 0 /\ auth THEN Len(c.tried) + 1 ELSE @]

Return(c, result) == [c EXCEPT !.pc = "done", !.result = result]

\* download_pom, lines 677-739: what follows the Maven Central attempt
FallBack(c) ==
    IF ~f_cfg.repo THEN Return(c, Result(FALSE, FALSE))
    ELSE IF f_cfg.clone_repos THEN [c EXCEPT !.pc = "clone"]
         ELSE [c EXCEPT !.pc = "raw", !.i = 1, !.auth_detected = FALSE]

\* a start that goes to the first attempt without looking at the cache path
StartCall_NoCacheCheck(t) ==
    /\ f_call[t].pc = "idle"
    /\ \E has_url \in BOOLEAN :
         f_call' = [f_call EXCEPT ![t] =
            IF f_cfg.kind = "jar"
            THEN [@ EXCEPT !.pc = IF f_cfg.use_maven THEN "maven" ELSE "primary"]
            ELSE IF f_cfg.kind = "npm"
                 THEN IF has_url THEN [@ EXCEPT !.pc = "tarball"]
                      ELSE Return(@, Result(FALSE, FALSE))
            ELSE IF f_cfg.poms THEN [@ EXCEPT !.pc = "central"]
                 ELSE FallBack(@)]
    /\ UNCHANGED <<f_cfg, f_cache, graphVars, cacheVars, enhanceVars, poolVars, rateVars, logVars, parserVars, resolveVars, extractVars>>

\* download_package / download_pom up to the first attempt: the cache check
StartCall(t) ==
    /\ f_call[t].pc = "idle"
    /\ \E has_url \in BOOLEAN :
         f_call' = [f_call EXCEPT ![t] =
            IF f_cache # "absent" THEN Return(@, Result(TRUE, FALSE))
            ELSE IF f_cfg.kind = "jar"
                 THEN [@ EXCEPT !.pc = IF f_cfg.use_maven THEN "maven" ELSE "primary"]
            ELSE IF f_cfg.kind = "npm"
                 THEN IF has_url THEN [@ EXCEPT !.pc = "tarball"]
                      ELSE Return(@, Result(FALSE, FALSE))
            ELSE IF f_cfg.poms THEN [@ EXCEPT !.pc = "central"]
                 ELSE FallBack(@)]
    /\ UNCHANGED <<f_cfg, f_cache, graphVars, cacheVars, enhanceVars, poolVars, rateVars, logVars, parserVars, resolveVars, extractVars>>

\* mutant: auth-like text in the output of mvn is one more failure that
\* falls through to the HTTP download
MavenStep_AuthFallsThrough(t, outcome) ==
    /\ f_call[t].pc = "maven"
    /\ LET c == Try(f_call[t], "mvn", 0, NoResponse, outcome = "auth")
       IN /\ f_call' = [f_call EXCEPT ![t] =
                IF outcome = "valid" THEN Return(c, Result(TRUE, FALSE))
                ELSE [c EXCEPT !.pc = "primary"]]
          /\ f_cache' = IF outcome = "valid" THEN "validated"
                        ELSE IF outcome = "invalid" THEN "absent"
                        ELSE IF outcome = "unreadable" THEN "unvalidated"
                        ELSE f_cache
    /\ UNCHANGED <<f_cfg, graphVars, cacheVars, enhanceVars, poolVars, rateVars, logVars,
                   parserVars, resolveVars, extractVars>>

\* download_package, lines 157-170, with _download_artifact_with_maven
MavenStep(t, outcome) ==
    /\ f_call[t].pc = "maven"
    /\ LET c == Try(f_call[t], "mvn", 0, NoResponse, outcome = "auth")
       IN /\ f_call' = [f_call EXCEPT ![t] =
                IF outcome = "valid" THEN Return(c, Result(TRUE, FALSE))
                ELSE IF outcome = "auth" THEN Return(c, Result(FALSE, TRUE))
                ELSE [c EXCEPT !.pc = "primary"]]
          /\ f_cache' = IF outcome = "valid" THEN "validated"
                        ELSE IF outcome = "invalid" THEN "absent"
                        ELSE IF outcome = "unreadable" THEN "unvalidated"
                        ELSE f_cache
    /\ UNCHANGED <<f_cfg, graphVars, cacheVars, enhanceVars, poolVars, rateVars, logVars, parserVars, resolveVars, extractVars>>

\* a primary request whose other HTTP and transport errors take the 404 path
PrimaryHttp_OtherErrorsFallBack(t, resp, wo) ==
    /\ f_call[t].pc = "primary"
    /\ LET c == Try(f_call[t], "primary", 0, resp, resp.status \in {"401", "403"})
           stored == resp.status = "200" /\ resp.body.len # 0
                     /\ _validate_artifact_content(resp.body)
       IN /\ f_call' = [f_call EXCEPT ![t] =
                IF resp.status = "200"
                THEN Return(c, Result(stored /\ wo = "written", FALSE))
                ELSE IF resp.status \in {"401", "403"} THEN Return(c, HttpErrorResult(resp.status))
                ELSE Return(c, Raised)]
          /\ f_cache' = IF stored THEN FileAfterWrite(f_cache, wo) ELSE f_cache
    /\ UNCHANGED <<f_cfg, graphVars, cacheVars, enhanceVars, poolVars, rateVars, logVars, parserVars, resolveVars, extractVars>>

\* download_package, lines 172-340: the request to the primary URL; on 404
\* _get_fallback_artifact_url passes base_url to build_maven_central_url,
\* which has no such parameter, and the TypeError leaves download_package
PrimaryHttp(t, resp, wo) ==
    /\ f_call[t].pc = "primary"
    /\ LET c == Try(f_call[t], "primary", 0, resp, resp.status \in {"401", "403"})
           stored == resp.status = "200" /\ resp.body.len # 0
                     /\ _validate_artifact_content(resp.body)
       IN /\ f_call' = [f_call EXCEPT ![t] =
                IF resp.status = "200"
                THEN Return(c, Result(stored /\ wo = "written", FALSE))
                ELSE IF resp.status \in {"401", "403"} THEN Return(c, HttpErrorResult(resp.status))
                ELSE IF resp.status = "404" THEN Return(c, Raised)
                ELSE Return(c, Result(FALSE, FALSE))]
          /\ f_cache' = IF stored THEN FileAfterWrite(f_cache, wo) ELSE f_cache
    /\ UNCHANGED <<f_cfg, graphVars, cacheVars, enhanceVars, poolVars, rateVars, logVars, parserVars, resolveVars, extractVars>>

\* NpmPackageDownloader.download_package, lines 159-238
TarballHttp(t, resp, wo) ==
    /\ f_call[t].pc = "tarball"
    /\ LET c == Try(f_call[t], "tarball", 0, resp, resp.status \in {"401", "403"})
           stored == resp.status = "200" /\ resp.body.len # 0
                     /\ _validate_tarball(resp.body)
       IN /\ f_call' = [f_call EXCEPT ![t] =
                IF resp.status = "200"
                THEN Return(c, Result(stored /\ wo = "written", FALSE))
                ELSE Return(c, Result(FALSE, resp.status \in {"401", "403"}))]
          /\ f_cache' = IF stored THEN FileAfterWrite(f_cache, wo) ELSE f_cache
    /\ UNCHANGED <<f_cfg, graphVars, cacheVars, enhanceVars, poolVars, rateVars, logVars, parserVars, resolveVars, extractVars>>

\* download_pom, lines 595-675, with _download_pom_from_maven_central
CentralHttp(t, resp, wo) ==
    /\ f_call[t].pc = "central"
    /\ LET c == Try(f_call[t], "central", 0, resp, resp.status \in {"401", "403"})
           stored == resp.status = "200" /\ resp.body.len # 0 /\ IsPomText(resp.body)
                     /\ _pom_content_matches(resp.body)
       IN /\ f_call' = [f_call EXCEPT ![t] =
                IF resp.status \in {"401", "403"} THEN Return(c, Result(FALSE, TRUE))
                ELSE IF stored /\ wo = "written" THEN Return(c, Result(TRUE, FALSE))
                ELSE FallBack(c)]
          /\ f_cache' = IF stored THEN FileAfterWrite(f_cache, wo) ELSE f_cache
    /\ UNCHANGED <<f_cfg, graphVars, cacheVars, enhanceVars, poolVars, rateVars, logVars, parserVars, resolveVars, extractVars>>

\* download_pom, lines 682-705: the clone branch
CloneStep(t, outcome) ==
    /\ f_call[t].pc = "clone"
    /\ LET c == Try(f_call[t], "clone", 0, NoResponse, outcome = "auth")
       IN /\ f_call' = [f_call EXCEPT ![t] =
                Return(c, Result(outcome = "found", outcome = "auth"))]
          /\ f_cache' = IF outcome = "found" THEN "validated"
                        ELSE IF outcome = "copy_raises" THEN "unvalidated"
                        ELSE f_cache
    /\ UNCHANGED <<f_cfg, graphVars, cacheVars, enhanceVars, poolVars, rateVars, logVars, parserVars, resolveVars, extractVars>>

\* download_pom, lines 706-739: one turn of the loop over the raw URLs, with
\* _download_pom_direct; after the last URL, the code that follows the loop
RawHttp(t, resp, wo) ==
    /\ f_call[t].pc = "raw"
    /\ LET auth_required == resp.status \in {"401", "403"}
           c == Try(f_call[t], "raw", f_call[t].i, resp, auth_required)
           stored == resp.status = "200" /\ resp.body.len # 0 /\ IsPomText(resp.body)
                     /\ _pom_content_matches(resp.body)
           auth_detected == c.auth_detected \/ auth_required
       IN /\ f_call' = [f_call EXCEPT ![t] =
                IF stored /\ wo = "written" THEN Return(c, Result(TRUE, FALSE))
                ELSE IF c.i < MaxRawUrls
                     THEN [c EXCEPT !.i = @ + 1, !.auth_detected = auth_detected]
                     ELSE Return([c EXCEPT !.auth_detected = auth_detected],
                                 Result(FALSE, auth_detected))]
          /\ f_cache' = IF stored THEN FileAfterWrite(f_cache, wo) ELSE f_cache
    /\ UNCHANGED <<f_cfg, graphVars, cacheVars, enhanceVars, poolVars, rateVars, logVars, parserVars, resolveVars, extractVars>>

(***************************************************************************)
(* _rate_limit of the registry clients (npm_registry.py, maven_central.py, *)
(* dependency_resolver.py): one client, the threads that call it, a clock  *)
(***************************************************************************)
RateThreads == {"w1", "w2"}

NoRateCall == [pc |-> "idle", wake |-> 0]

\* _rate_limit, lines 35-38: how long the caller sleeps, given the clock and
\* the last-request time it read
SleepTime(now, last_request_time) ==
    LET elapsed == now - last_request_time
    IN IF elapsed < RATE_LIMIT_DELAY THEN RATE_LIMIT_DELAY - elapsed ELSE 0

\* time.time() is far beyond 0.0 + RATE_LIMIT_DELAY when the client is made
InitRateVars ==
    /\ r_now = RATE_LIMIT_DELAY
    /\ r_last = 0
    /\ r_thread = [t \in RateThreads |-> NoRateCall]
    /\ r_requests = <<>>

\* _rate_limit, lines 35-38: read the clock and _last_request_time, start to
\* sleep for the rest of the interval (not at all when it has passed)
RateLimitEnter(t) ==
    /\ r_thread[t].pc = "idle"
    /\ Len(r_requests)
         + Cardinality({u \in RateThreads : r_thread[u].pc = "sleeping"}) < MaxRequests
    /\ r_thread' = [r_thread EXCEPT ![t] =
           [pc |-> "sleeping", wake |-> r_now + SleepTime(r_now, r_last)]]
    /\ UNCHANGED <<r_now, r_last, r_requests,
                   graphVars, cacheVars, fetchVars, enhanceVars, poolVars, logVars, parserVars, resolveVars, extractVars>>

\* _rate_limit, line 39, and the request that follows: the sleep is over,
\* _last_request_time becomes the clock's value and the request starts
RateLimitLeave(t) ==
    /\ r_thread[t].pc = "sleeping"
    /\ r_now >= r_thread[t].wake
    /\ r_last' = r_now
    /\ r_requests' = Append(r_requests, r_now)
    /\ r_thread' = [r_thread EXCEPT ![t] = NoRateCall]
    /\ UNCHANGED <<r_now, graphVars, cacheVars, fetchVars, enhanceVars, poolVars, logVars, parserVars, resolveVars, extractVars>>

\* time passes
Tick ==
    /\ r_now < MaxTime
    /\ r_now' = r_now + 1
    /\ UNCHANGED <<r_last, r_thread, r_requests,
                   graphVars, cacheVars, fetchVars, enhanceVars, poolVars, logVars, parserVars, resolveVars, extractVars>>

(***************************************************************************)
(* _log of the three downloaders and the download operations around it:   *)
(* the positions are those of PackageDownloader.download_package, which    *)
(* NpmPackageDownloader.download_package repeats line by line; in          *)
(* POMDownloader every line goes through the same protected _log           *)
(***************************************************************************)
LogKinds == {"jar", "npm", "pom"}

NoLogCall == [pc |-> "idle", kind |-> "jar", verbose |-> FALSE,
              expected |-> "none", result |-> "none", stored |-> FALSE]

InitLogVars ==
    /\ l_call = NoLogCall
    /\ l_lines = 0

\* _log: PackageDownloader and NpmPackageDownloader open the log file with
\* no handler around it, POMDownloader catches every Exception of the write
_log(kind, write_ok) ==
    IF write_ok THEN "written"
    ELSE IF kind = "pom" THEN "swallowed"
    ELSE "raises"

LinesAfter(o) == IF o = "written" THEN l_lines + 1 ELSE l_lines

LogFrame == UNCHANGED <<graphVars, cacheVars, fetchVars, enhanceVars, poolVars, rateVars, parserVars, resolveVars, extractVars>>

\* the operation is called; cached and response fix what it returns when
\* every log line is written
LogStart(kind, verbose, cached, response) ==
    /\ l_call.pc = "idle"
    /\ l_call' = [pc |-> IF cached THEN "cached" ELSE "url",
                  kind |-> kind, verbose |-> verbose,
                  expected |-> IF cached \/ response = "valid" THEN "name" ELSE "none",
                  result |-> "none", stored |-> cached]
    /\ l_lines' = 0
    /\ LogFrame

\* download_package, lines 153-155: the line of the cache hit
LogCachedLine(write_ok) ==
    /\ l_call.pc = "cached"
    /\ LET o == _log(l_call.kind, write_ok)
       IN /\ l_call' = [l_call EXCEPT !.pc = "done",
                                      !.result = IF o = "raises" THEN "raised" ELSE "name"]
          /\ l_lines' = LinesAfter(o)
    /\ LogFrame

\* download_package, lines 177-178: the lines before the request, outside
\* the try statement
LogUrlLine(write_ok) ==
    /\ l_call.pc = "url"
    /\ LET o == _log(l_call.kind, write_ok)
       IN /\ l_call' = IF o = "raises"
                       THEN [l_call EXCEPT !.pc = "done", !.result = "raised"]
                       ELSE [l_call EXCEPT !.pc = IF l_call.expected = "name"
                                                  THEN "save" ELSE "outer_handler"]
          /\ l_lines' = LinesAfter(o)
    /\ LogFrame

\* download_package, lines 202-207: the line before the file is written,
\* inside the inner try statement, and the write
LogSaveLine(write_ok) ==
    /\ l_call.pc = "save"
    /\ LET o == _log(l_call.kind, write_ok)
       IN /\ l_call' = IF o = "raises"
                       THEN [l_call EXCEPT !.pc = "write_handler"]
                       ELSE [l_call EXCEPT !.pc = "after_save", !.stored = TRUE]
          /\ l_lines' = LinesAfter(o)
    /\ LogFrame

\* download_package, lines 208-221: the lines after the write, still inside
\* the inner try statement, and the return of the file name
LogAfterSaveLine(write_ok) ==
    /\ l_call.pc = "after_save"
    /\ LET o == _log(l_call.kind, write_ok)
       IN /\ l_call' = IF o = "raises"
                       THEN [l_call EXCEPT !.pc = "write_handler"]
                       ELSE [l_call EXCEPT !.pc = "done", !.result = "name"]
          /\ l_lines' = LinesAfter(o)
    /\ LogFrame

\* download_package, lines 231-236: except Exception as write_exc logs and
\* returns (None, False); an exception of this _log goes to the outer handler
LogWriteHandlerLine(write_ok) ==
    /\ l_call.pc = "write_handler"
    /\ LET o == _log(l_call.kind, write_ok)
       IN /\ l_call' = IF o = "raises"
                       THEN [l_call EXCEPT !.pc = "outer_handler"]
                       ELSE [l_call EXCEPT !.pc = "done", !.result = "none"]
          /\ l_lines' = LinesAfter(o)
    /\ LogFrame

\* download_package, lines 334-340: except (URLError, Exception) logs only
\* when verbose, then (None, False) is returned
LogOuterHandler(write_ok) ==
    /\ l_call.pc = "outer_handler"
    /\ LET o == IF l_call.verbose THEN _log(l_call.kind, write_ok) ELSE "no line"
       IN /\ l_call' = [l_call EXCEPT !.pc = "done",
                                      !.result = IF o = "raises" THEN "raised" ELSE "none"]
          /\ l_lines' = LinesAfter(o)
    /\ LogFrame

\* the caller has the result; the next operation can start
LogReturn ==
    /\ l_call.pc = "done"
    /\ l_call' = NoLogCall
    /\ l_lines' = 0
    /\ LogFrame

(***************************************************************************)
(* SBOMParser.parse and build_maven_central_url (parser.py)                *)
(***************************************************************************)
MissingFile == [kind |-> "missing"]
NotJson == [kind |-> "not json"]

\* what json.load returns for the files tried: a list, or an object with or
\* without a bomFormat, the refs of its components (a ref may repeat) and its
\* dependency entries (ref, dependsOn), none or one; "" is the empty ref
SbomDocuments ==
    {[kind |-> "json", root |-> "list"]} \cup
    {[kind |-> "json", root |-> "object", bomFormat |-> f, components |-> cs,
      dependencies |-> ds] :
        f \in {"CycloneDX", "SPDX", "absent"},
        cs \in UNION {[1..n -> Ids] : n \in 0..MaxParserComponents},
        ds \in {<<>>} \cup {<<d>> : d \in (Ids \cup {""}) \X Ids}}

SbomFiles == {MissingFile, NotJson} \cup SbomDocuments

\* the keys of self.components after the loop: dict insertion order
RECURSIVE ComponentKeys(_, _)
ComponentKeys(keys, comps) ==
    IF comps = <<>> THEN keys
    ELSE ComponentKeys(AppendNew(keys, Head(comps)), Tail(comps))

\* self.dependencies after the loop, flattened: entries with an empty ref
\* are skipped
RECURSIVE DependencyEntries(_)
DependencyEntries(deps) ==
    IF deps = <<>> THEN <<>>
    ELSE IF Head(deps)[1] = "" THEN DependencyEntries(Tail(deps))
         ELSE <<Head(deps)>> \o DependencyEntries(Tail(deps))

NewParser == [called |-> FALSE, outcome |-> "none", seen |-> MissingFile,
              has_data |-> FALSE, components |-> <<>>, dependencies |-> <<>>]

\* mutant: the components are recorded before the format is validated
Parse_RecordsFirst(p, file) ==
    LET q == [p EXCEPT !.called = TRUE, !.seen = file]
    IN IF file.kind = "missing" THEN [q EXCEPT !.outcome = "FileNotFoundError"]
       ELSE IF file.kind = "not json" THEN [q EXCEPT !.outcome = "JSONDecodeError"]
       ELSE LET d == [q EXCEPT !.has_data = TRUE]
            IN IF file.root # "object" THEN [d EXCEPT !.outcome = "ValueError"]
               ELSE IF file.bomFormat # "CycloneDX"
                    THEN [d EXCEPT !.outcome = "ValueError",
                                   !.components = ComponentKeys(p.components, file.components)]
               ELSE [d EXCEPT !.outcome = "returned",
                              !.components = ComponentKeys(p.components, file.components),
                              !.dependencies = p.dependencies \o DependencyEntries(file.dependencies)]

\* SBOMParser.parse on parser p with the file as it is
Parse(p, file) ==
    LET q == [p EXCEPT !.called = TRUE, !.seen = file]
    IN IF file.kind = "missing" THEN [q EXCEPT !.outcome = "FileNotFoundError"]
       ELSE IF file.kind = "not json" THEN [q EXCEPT !.outcome = "JSONDecodeError"]
       ELSE LET d == [q EXCEPT !.has_data = TRUE]
            IN IF file.root # "object" THEN [d EXCEPT !.outcome = "ValueError"]
               ELSE IF file.bomFormat # "CycloneDX" THEN [d EXCEPT !.outcome = "ValueError"]
               ELSE [d EXCEPT !.outcome = "returned",
                              !.components = ComponentKeys(p.components, file.components),
                              !.dependencies = p.dependencies \o DependencyEntries(file.dependencies)]

ParserFrame ==
    UNCHANGED <<graphVars, cacheVars, fetchVars, enhanceVars, poolVars, rateVars, logVars, resolveVars, extractVars>>

\* SBOMParser.__init__
SBOMParser ==
    /\ s_parser.called
    /\ s_parser' = NewParser
    /\ UNCHANGED <<s_file, u_call>>
    /\ ParserFrame

\* SBOMParser.parse, called once on a parser as cli.main calls it
parse ==
    /\ ~s_parser.called
    /\ s_parser' = Parse(s_parser, s_file)
    /\ UNCHANGED <<s_file, u_call>>
    /\ ParserFrame

\* a file is put at sbom_path before it is parsed
WriteSbomFile(file) ==
    /\ ~s_parser.called
    /\ s_file = MissingFile
    /\ file # MissingFile
    /\ s_file' = file
    /\ UNCHANGED <<s_parser, u_call>>
    /\ ParserFrame

\* the file at sbom_path is removed
RemoveSbomFile ==
    /\ ~s_parser.called
    /\ s_file # MissingFile
    /\ s_file' = MissingFile
    /\ UNCHANGED <<s_parser, u_call>>
    /\ ParserFrame

\* a group id is a list of labels joined by dots, a URL a list of segments
\* joined by slashes, a file name the artifact, the version and an extension
NotGiven == "not given"

\* the arguments of the calls tried
UrlArgs ==
    [group : {<<>>, <<"org">>, <<"org", "example">>},
     artifact : {"", "flogger"},
     version : {"", "0.7.1"},
     file_type : {"", "jar", "pom", "war", "ear", "zip"},
     base_url : {NotGiven, "https://repo1.maven.org/maven2",
                 "https://mvnrepository.com/repos/central"}]

NoUrlCall == [called |-> FALSE]

FileName(artifact, version, extension) ==
    [artifact |-> artifact, version |-> version, extension |-> extension]

\* build_maven_central_url: the signature has the parameters group,
\* artifact, version and file_type; a call that passes base_url raises
\* TypeError before the body runs.  group.replace(".", "/") makes every
\* label of the group a segment of its own.
build_maven_central_url(a) ==
    IF a.base_url # NotGiven THEN [raised |-> "TypeError", url |-> <<>>]
    ELSE IF a.group = <<>> \/ a.artifact = "" \/ a.version = ""
         THEN [raised |-> "none", url |-> <<>>]
    ELSE LET group_path == a.group
             extension == IF a.file_type \in {"jar", "pom", "war", "ear"}
                          THEN a.file_type ELSE "jar"
             base_url == "https://repo1.maven.org/maven2"
         IN [raised |-> "none",
             url |-> <<base_url>> \o group_path
                     \o <<a.artifact, a.version, FileName(a.artifact, a.version, extension)>>]

UrlFrame ==
    UNCHANGED <<graphVars, cacheVars, fetchVars, enhanceVars, poolVars, rateVars, logVars, resolveVars, extractVars>>

\* a caller calls build_maven_central_url
CallBuildUrl(a) ==
    /\ ~u_call.called
    /\ u_call' = [called |-> TRUE, args |-> a, result |-> build_maven_central_url(a)]
    /\ UNCHANGED <<s_file, s_parser>>
    /\ UrlFrame

\* the caller goes on
UrlReturn ==
    /\ u_call.called
    /\ u_call' = NoUrlCall
    /\ UNCHANGED <<s_file, s_parser>>
    /\ UrlFrame

InitParserVars ==
    /\ s_file = MissingFile
    /\ s_parser = NewParser
    /\ u_call = NoUrlCall

(***************************************************************************)
(* ParallelDownloader (parallel_downloader.py): the background thread, its *)
(* thread pool, and the thread that waits for it                           *)
(***************************************************************************)
\* components read from compile-order.csv; "cx" has no version
PoolComponents == {"c1", "cx"}

\* what a downloader's download_pom / download_package can do
DownloadOutcomes == {"file", "auth", "failed", "raises"}

\* _download_pom with no handler around the downloader's call
_download_pom_SuccessOnRaise(component_id, outcome) ==
    [component_id |-> component_id, success |-> outcome \in {"file", "raises"},
     file_type |-> "pom"]

\* _download_pom, lines 123-148: the tuple it returns; an exception of the
\* downloader is caught and gives the failure tuple
_download_pom(component_id, outcome) ==
    [component_id |-> component_id, success |-> outcome = "file", file_type |-> "pom"]

\* _download_jar, lines 150-175
_download_jar(component_id, outcome) ==
    [component_id |-> component_id, success |-> outcome = "file", file_type |-> "jar"]

\* a task that was submitted and has not started
Task(file_type, comp) ==
    [file_type |-> file_type, comp |-> comp, state |-> "queued",
     success |-> FALSE, raised |-> FALSE]

\* download_worker, lines 202-211: the task list; components without group,
\* name or version are left out
RECURSIVE DownloadTasks(_, _)
DownloadTasks(components, cfg) ==
    IF components = <<>> THEN <<>>
    ELSE LET comp == Head(components)
             own == IF comp = "cx" THEN <<>>
                    ELSE (IF cfg.pom_downloader THEN <<Task("pom", comp)>> ELSE <<>>)
                         \o (IF cfg.jar_downloader THEN <<Task("jar", comp)>> ELSE <<>>)
         IN own \o DownloadTasks(Tail(components), cfg)

\* the downloaders given and the compile-order.csv files that give at most
\* MaxTasks tasks; a row without version is skipped wherever it stands, so
\* only the first row may be one
PoolInputs ==
    {in \in [cfg : [pom_downloader : BOOLEAN, jar_downloader : BOOLEAN],
             csv : UNION {[1..n -> PoolComponents] : n \in 0..MaxTasks}] :
        /\ Len(DownloadTasks(in.csv, in.cfg)) <= MaxTasks
        /\ \A i \in 2..Len(in.csv) : in.csv[i] # "cx"}

\* _read_compile_order_components, line 109: the bom-ref, and so the
\* identifier, of the component of a row is group:artifact:version, character
\* by character; the rows of the model share group "g" and version "1"
RowIdentifier(comp) == <<"g", ":", comp, ":", "1">>

\* identifier.split(ch)[0]: the characters before the first ch
RECURSIVE BeforeFirst(_, _)
BeforeFirst(s, ch) ==
    IF s = <<>> \/ Head(s) = ch THEN <<>>
    ELSE <<Head(s)>> \o BeforeFirst(Tail(s), ch)

\* download_package, lines 139-147, and download_pom, lines 570-578: the
\* cache key of an identifier
CacheKey(identifier) ==
    LET stripped == BeforeFirst(BeforeFirst(identifier, "?"), "#")
    IN [i \in 1..Len(stripped) |->
           IF stripped[i] \in {"/", ":", "@"} THEN "_" ELSE stripped[i]]

\* the file a task writes: the cache directory of its kind, the key, the
\* extension
CachePath(task) ==
    [dir |-> task.file_type, key |-> CacheKey(RowIdentifier(task.comp)),
     extension |-> task.file_type]

\* futures whose task is being executed by a thread of the pool
Executing(tasks) == {i \in 1..Len(tasks) : tasks[i].state = "running"}

InitPoolVars ==
    /\ p_cfg = [pom_downloader |-> FALSE, jar_downloader |-> FALSE]
    /\ p_csv = <<>>
    /\ p_main = "new"
    /\ p_wait = "none"
    /\ p_worker = "none"
    /\ p_running = FALSE
    /\ p_tasks = <<>>
    /\ p_results = <<>>

\* start_background_downloads, lines 177-261: None without downloaders;
\* otherwise the daemon thread is started and returned; _running is still
\* False when start() returns
start_background_downloads ==
    /\ p_main = "new"
    /\ IF ~p_cfg.pom_downloader /\ ~p_cfg.jar_downloader
       THEN p_main' = "none" /\ UNCHANGED p_worker
       ELSE p_main' = "started" /\ p_worker' = "started"
    /\ UNCHANGED <<p_cfg, p_csv, p_wait, p_running, p_tasks, p_results,
                   graphVars, cacheVars, fetchVars, enhanceVars, rateVars, logVars, parserVars, resolveVars, extractVars>>

\* download_worker, line 190
WorkerSetsRunning ==
    /\ p_worker = "started"
    /\ p_worker' = "reading"
    /\ p_running' = TRUE
    /\ UNCHANGED <<p_cfg, p_csv, p_main, p_wait, p_tasks, p_results,
                   graphVars, cacheVars, fetchVars, enhanceVars, rateVars, logVars, parserVars, resolveVars, extractVars>>

\* download_worker, lines 193-231: read the components, build the tasks and
\* submit them all to ThreadPoolExecutor(max_workers); without components or
\* tasks the worker clears _running and returns
WorkerSubmits ==
    /\ p_worker = "reading"
    /\ LET download_tasks == DownloadTasks(p_csv, p_cfg)
       IN IF download_tasks = <<>>
          THEN p_worker' = "done" /\ p_running' = FALSE /\ UNCHANGED p_tasks
          ELSE p_worker' = "pool" /\ p_tasks' = download_tasks /\ UNCHANGED p_running
    /\ UNCHANGED <<p_cfg, p_csv, p_main, p_wait, p_results,
                   graphVars, cacheVars, fetchVars, enhanceVars, rateVars, logVars, parserVars, resolveVars, extractVars>>

\* ThreadPoolExecutor with no limit on its threads
TaskStarts_NoLimit(i) ==
    /\ p_worker = "pool"
    /\ i \in 1..Len(p_tasks)
    /\ p_tasks[i].state = "queued"
    /\ \A j \in 1..(i - 1) : p_tasks[j].state # "queued"
    /\ p_tasks' = [p_tasks EXCEPT ![i].state = "running"]
    /\ UNCHANGED <<p_cfg, p_csv, p_main, p_wait, p_worker, p_running, p_results,
                   graphVars, cacheVars, fetchVars, enhanceVars, rateVars, logVars, parserVars, resolveVars, extractVars>>

\* ThreadPoolExecutor(max_workers), line 223: a thread of the pool takes the
\* oldest queued task; the pool has at most max_workers threads
TaskStarts(i) ==
    /\ p_worker = "pool"
    /\ i \in 1..Len(p_tasks)
    /\ p_tasks[i].state = "queued"
    /\ \A j \in 1..(i - 1) : p_tasks[j].state # "queued"
    /\ Cardinality(Executing(p_tasks)) < max_workers
    /\ p_tasks' = [p_tasks EXCEPT ![i].state = "running"]
    /\ UNCHANGED <<p_cfg, p_csv, p_main, p_wait, p_worker, p_running, p_results,
                   graphVars, cacheVars, fetchVars, enhanceVars, rateVars, logVars, parserVars, resolveVars, extractVars>>

\* _download_pom / _download_jar return in a thread of the pool
TaskReturns(i, outcome) ==
    /\ i \in 1..Len(p_tasks)
    /\ p_tasks[i].state = "running"
    /\ LET t == p_tasks[i]
           tuple == IF t.file_type = "pom" THEN _download_pom(t.comp, outcome)
                    ELSE _download_jar(t.comp, outcome)
       IN p_tasks' = [p_tasks EXCEPT ![i] =
              [t EXCEPT !.state = "finished", !.success = tuple.success,
                        !.raised = (outcome = "raises")]]
    /\ UNCHANGED <<p_cfg, p_csv, p_main, p_wait, p_worker, p_running, p_results,
                   graphVars, cacheVars, fetchVars, enhanceVars, rateVars, logVars, parserVars, resolveVars, extractVars>>

\* download_worker, lines 234-249: as_completed hands over a finished future
\* and its result is appended to _results under the lock
WorkerRecords(i) ==
    /\ p_worker = "pool"
    /\ i \in 1..Len(p_tasks)
    /\ p_tasks[i].state = "finished"
    /\ p_tasks' = [p_tasks EXCEPT ![i].state = "recorded"]
    /\ p_results' = Append(p_results,
           [task |-> i, component_id |-> p_tasks[i].comp,
            success |-> p_tasks[i].success, file_type |-> p_tasks[i].file_type])
    /\ UNCHANGED <<p_cfg, p_csv, p_main, p_wait, p_worker, p_running,
                   graphVars, cacheVars, fetchVars, enhanceVars, rateVars, logVars, parserVars, resolveVars, extractVars>>

\* download_worker that leaves _running set when it ends
WorkerEnds_KeepsRunning ==
    /\ p_worker = "pool"
    /\ \A i \in 1..Len(p_tasks) : p_tasks[i].state = "recorded"
    /\ p_worker' = "done"
    /\ UNCHANGED <<p_cfg, p_csv, p_main, p_wait, p_running, p_tasks, p_results,
                   graphVars, cacheVars, fetchVars, enhanceVars, rateVars, logVars, parserVars, resolveVars, extractVars>>

\* download_worker, lines 250-255: the loop over as_completed and the with
\* block end when every future is done; _running is cleared, the thread ends
WorkerEnds ==
    /\ p_worker = "pool"
    /\ \A i \in 1..Len(p_tasks) : p_tasks[i].state = "recorded"
    /\ p_worker' = "done"
    /\ p_running' = FALSE
    /\ UNCHANGED <<p_cfg, p_csv, p_main, p_wait, p_tasks, p_results,
                   graphVars, cacheVars, fetchVars, enhanceVars, rateVars, logVars, parserVars, resolveVars, extractVars>>

\* wait_for_completion, lines 263-281: the loop polls _running; the call
\* returns True at a poll that finds it False, and False at a poll that finds
\* it True after the timeout, if one was given, has elapsed
wait_for_completion(timeout) ==
    /\ p_main = "started"
    /\ p_running => timeout
    /\ p_main' = "returned"
    /\ p_wait' = IF p_running THEN "False" ELSE "True"
    /\ UNCHANGED <<p_cfg, p_csv, p_worker, p_running, p_tasks, p_results,
                   graphVars, cacheVars, fetchVars, enhanceVars, rateVars, logVars, parserVars, resolveVars, extractVars>>

(***************************************************************************)
(* create_enhanced_csv (enhanced_csv.py): the rows of enhanced.csv and the *)
(* decision, per row, to call download_pom or to reuse the previous row    *)
(***************************************************************************)
\* rows of compile-order.csv by their key (Group ID, Package Name, Version): two
\* Maven rows with full coordinates and a Maven row without a version
ERows == {"m1", "m2", "mx"}

\* is_maven: the row's PURL names a Maven package
IsMaven(r) == r \in {"m1", "m2", "mx"}

\* comp.group and comp.name and comp.version
HasCoordinates(r) == r # "mx"

\* the File Location column: empty, or "./poms/<file of the row's component>"
NoLocation == <<>>
FileLocation(r) == <<"./poms", r>>

\* the Downloaded column
Downloaded == {"", "yes", "Authentication required", "Failed to download",
               "Error", "Missing version", "Not attempted"}

\* a row of enhanced.csv: its key and its Downloaded and File Location columns
EnhancedRow(r, downloaded_status, file_location) ==
    [key |-> r, downloaded |-> downloaded_status, file_location |-> file_location]

\* existing_enhanced_rows.get(row_key) when the key is not there
NoRow == EnhancedRow("none", "", NoLocation)

\* no enhanced.csv on disk
NoEnhanced == [exists |-> FALSE, rows |-> <<>>]

\* what download_pom can give for a row whose POM is not in the cache
PomOutcomes == {"file", "auth", "failed", "raises"}

\* the compile-order.csv files: 1..MaxRows rows
CompileOrderFiles == UNION {[1..n -> ERows] : n \in 1..MaxRows}

\* create_enhanced_csv, lines 182-203: the previous rows by key; a later row
\* with the same key replaces an earlier one
ExistingRows(file) ==
    [r \in ERows |->
        IF ~\E i \in 1..Len(file) : file[i].key = r
        THEN NoRow
        ELSE LET last == CHOOSE i \in 1..Len(file) :
                             /\ file[i].key = r
                             /\ \A j \in 1..Len(file) : file[j].key = r => j <= i
             IN file[last]]

\* lines 455-457: existing_file_path.exists(), the recorded location resolved
\* against the directory of compile-order.csv; download_pom writes below the
\* cache directory
LocationExists(file_location, same_dir, poms) ==
    /\ same_dir
    /\ file_location[2] \in poms

\* lines 449-461: skip_pom_download
SkipPomDownload(pom_downloader, existing, same_dir, poms) ==
    /\ pom_downloader
    /\ existing.downloaded = "yes"
    /\ existing.file_location # NoLocation
    /\ LocationExists(existing.file_location, same_dir, poms)

\* line 483: the condition under which download_pom is called for the row
CallsDownloadPom(r, pom_downloader, skip_pom_download) ==
    pom_downloader /\ IsMaven(r) /\ HasCoordinates(r) /\ ~skip_pom_download

\* lines 473-476 and 483-574: downloaded_status and file_location after the
\* download branch; both were set to "" at 475-476 whatever came before
DownloadColumns(r, pom_downloader, skip_pom_download, result) ==
    IF CallsDownloadPom(r, pom_downloader, skip_pom_download)
    THEN CASE result = "file" -> EnhancedRow(r, "yes", FileLocation(r))
           [] result = "auth" -> EnhancedRow(r, "Authentication required", NoLocation)
           [] result = "failed" -> EnhancedRow(r, "Failed to download", NoLocation)
           [] OTHER -> EnhancedRow(r, "Error", NoLocation)
    ELSE IF pom_downloader /\ ~skip_pom_download
         THEN IF ~HasCoordinates(r) THEN EnhancedRow(r, "Missing version", NoLocation)
              ELSE EnhancedRow(r, "Not attempted", NoLocation)
    ELSE EnhancedRow(r, "", NoLocation)

\* lines 636-650: the Downloaded and File Location columns of the new row
NewRow(r, pom_downloader, use_existing_data, existing, columns) ==
    IF use_existing_data /\ ~pom_downloader
    THEN EnhancedRow(r, existing.downloaded, existing.file_location)
    ELSE columns

NoEnhanceCfg == [pom_downloader |-> FALSE, incremental_update |-> FALSE, same_dir |-> TRUE]

\* no call of create_enhanced_csv yet, or since the last one a POM file was
\* removed or download_pom went to the network
NoRuns == [n |-> 0, rows |-> <<>>, cfg |-> NoEnhanceCfg]

\* the calls in a row with the same compile-order.csv and the same arguments,
\* counted up to MaxRuns
RunsAfter(runs, rows, cfg) ==
    [n |-> IF runs.n > 0 /\ runs.rows = rows /\ runs.cfg = cfg
           THEN (IF runs.n < MaxRuns THEN runs.n + 1 ELSE MaxRuns)
           ELSE 1,
     rows |-> rows, cfg |-> cfg]

InitEnhanceVars ==
    /\ e_runs = NoRuns
    /\ e_pc = "idle"
    /\ e_cfg = NoEnhanceCfg
    /\ e_order = <<>>
    /\ e_existing = [r \in ERows |-> NoRow]
    /\ e_enhanced = NoEnhanced
    /\ e_poms = {}
    /\ e_i = 0
    /\ e_calls = <<>>

\* create_enhanced_csv, lines 168-264: read the previous enhanced.csv, decide
\* incremental_update, read compile-order.csv, open enhanced.csv for writing
\* and write the header
StartEnhance(rows, pom_downloader, same_dir, incremental_update) ==
    /\ e_pc = "idle"
    /\ incremental_update => e_enhanced.exists
    /\ e_pc' = "rows"
    /\ e_cfg' = [pom_downloader |-> pom_downloader,
                 incremental_update |-> incremental_update,
                 same_dir |-> same_dir]
    /\ e_order' = rows
    /\ e_existing' = ExistingRows(e_enhanced.rows)
    /\ e_enhanced' = [exists |-> TRUE, rows |-> <<>>]
    /\ e_i' = 1
    /\ e_calls' = <<>>
    /\ e_runs' = RunsAfter(e_runs, rows, [pom_downloader |-> pom_downloader,
                                          incremental_update |-> incremental_update,
                                          same_dir |-> same_dir])
    /\ UNCHANGED <<e_poms, graphVars, cacheVars, fetchVars, poolVars, rateVars, logVars, parserVars, resolveVars, extractVars>>

\* create_enhanced_csv, lines 267-655 and 663-664: one turn of the loop over
\* the rows; after the last row the file is closed
ProcessRow(result) ==
    /\ e_pc = "rows"
    /\ LET r == e_order[e_i]
           existing == e_existing[r]
           use_existing_data == e_cfg.incremental_update /\ existing # NoRow
           skip == SkipPomDownload(e_cfg.pom_downloader, existing, e_cfg.same_dir, e_poms)
           called == CallsDownloadPom(r, e_cfg.pom_downloader, skip)
           \* download_pom returns the cached file when there is one
           res == IF r \in e_poms THEN "file" ELSE result
           columns == DownloadColumns(r, e_cfg.pom_downloader, skip, res)
       IN /\ e_calls' = IF called THEN Append(e_calls, r) ELSE e_calls
          /\ e_poms' = IF called /\ res = "file" THEN e_poms \cup {r} ELSE e_poms
          /\ e_runs' = IF called /\ r \notin e_poms THEN NoRuns ELSE e_runs
          /\ e_enhanced' = [e_enhanced EXCEPT !.rows = Append(@,
                 NewRow(r, e_cfg.pom_downloader, use_existing_data, existing, columns))]
    /\ IF e_i < Len(e_order)
       THEN /\ e_i' = e_i + 1
            /\ UNCHANGED <<e_pc, e_cfg, e_order, e_existing>>
       ELSE \* the call returns: its locals are gone
            /\ e_pc' = "idle"
            /\ e_cfg' = NoEnhanceCfg
            /\ e_order' = <<>>
            /\ e_existing' = [k \in ERows |-> NoRow]
            /\ e_i' = 0
    /\ UNCHANGED <<graphVars, cacheVars, fetchVars, poolVars, rateVars, logVars, parserVars, resolveVars, extractVars>>

\* between two calls a POM file is removed from cache/poms
DeletePom(r) ==
    /\ e_pc = "idle"
    /\ r \in e_poms
    /\ e_poms' = e_poms \ {r}
    /\ e_runs' = NoRuns
    /\ UNCHANGED <<e_pc, e_cfg, e_order, e_existing, e_enhanced, e_i, e_calls,
                   graphVars, cacheVars, fetchVars, poolVars, rateVars, logVars, parserVars, resolveVars, extractVars>>

(***************************************************************************)
(* DependencyResolver (dependency_resolver.py): the extended CSV written   *)
(* by resolve_from_compile_order_csv                                       *)
(***************************************************************************)
\* packages by group:artifact and version: two versions of one artifact, and
\* a package without a version
Packages == {[ga |-> "a", version |-> "1"], [ga |-> "b", version |-> "1"],
             [ga |-> "b", version |-> "2"], [ga |-> "c", version |-> ""]}

\* package_key and dep_key: group:artifact:version
PackageKey(p) == <<p.ga, p.version>>

\* the compile-order.csv files: one or two rows with Group ID and Package Name
CompileOrderRows == [1..1 -> Packages] \cup [1..2 -> Packages]

\* no call of resolve_from_compile_order_csv yet
NoResolve == [called |-> FALSE, rows |-> <<>>, max_depth |-> 0,
              extended |-> <<>>, visited |-> {}]

InitResolveVars ==
    /\ d_pages = [p \in Packages |-> <<>>]
    /\ d_call = NoResolve

\* number of dependencies listed on all pages
NumListed(pages) ==
    Cardinality({pq \in Packages \X Packages : pq[2] \in Range(pages[pq[1]])})

\* the repository lists q as one more dependency of p; pages are per version
PublishDependency(p, q) ==
    /\ ~d_call.called
    /\ p.version # "" /\ p # q /\ q \notin Range(d_pages[p])
    /\ NumListed(d_pages) < MaxListed
    /\ d_pages' = [d_pages EXCEPT ![p] = Append(@, q)]
    /\ UNCHANGED <<d_call, graphVars, cacheVars, fetchVars, enhanceVars, poolVars,
                   rateVars, logVars, parserVars, extractVars>>

\* _write_extended_csv_row: the row appended to the extended CSV
ExtendedRow(p, depth, status, is_original) ==
    [key |-> PackageKey(p), depth |-> depth, status |-> status, is_original |-> is_original]

\* _add_dependencies_recursive, lines 971-977: the dependency is skipped
AlreadyVisited_Never(visited, dep_key) == FALSE

AlreadyVisited(visited, dep_key) == dep_key \in visited

\* _add_dependencies_recursive, lines 951-1021; st holds self._visited and the
\* rows of the extended CSV; AddEach is its loop over the dependencies from
\* the i-th on
RECURSIVE _add_dependencies_recursive(_, _, _, _, _)
RECURSIVE AddEach(_, _, _, _, _, _)
AddEach(st, pages, dependencies, i, depth, max_depth) ==
    IF i > Len(dependencies) THEN st
    ELSE LET dep == dependencies[i]
         IN IF AlreadyVisited(st.visited, PackageKey(dep))
            THEN AddEach(st, pages, dependencies, i + 1, depth, max_depth)
            ELSE LET written == [visited |-> st.visited \cup {PackageKey(dep)},
                                 extended |-> Append(st.extended,
                                     ExtendedRow(dep, depth, "dependency", 0))]
                     below == IF dep.version # ""
                              THEN _add_dependencies_recursive(written, pages, dep,
                                                               depth + 1, max_depth)
                              ELSE written
                 IN AddEach(below, pages, dependencies, i + 1, depth, max_depth)

_add_dependencies_recursive(st, pages, p, depth, max_depth) ==
    IF depth > max_depth \/ p.version = "" THEN st
    ELSE AddEach(st, pages, pages[p], 1, depth, max_depth)

\* resolve_from_compile_order_csv, lines 842-917: the loop over the rows of
\* compile-order.csv from the i-th on
RECURSIVE ResolveRows(_, _, _, _, _)
ResolveRows(st, pages, rows, i, max_depth) ==
    IF i > Len(rows) THEN st
    ELSE LET copied == [st EXCEPT !.extended = Append(@,
                            ExtendedRow(rows[i], 0, "from_compile_order", 1))]
             below == IF rows[i].version # ""
                      THEN _add_dependencies_recursive(copied, pages, rows[i], 1, max_depth)
                      ELSE copied
         IN ResolveRows(below, pages, rows, i + 1, max_depth)

\* resolve_from_compile_order_csv, lines 786-838: compile_order_packages, with
\* which self._visited starts
compile_order_packages(rows) == {PackageKey(rows[i]) : i \in 1..Len(rows)}

\* resolve_from_compile_order_csv, with every dependencies page fetched
resolve_from_compile_order_csv(rows, max_depth) ==
    /\ ~d_call.called
    /\ LET st == ResolveRows([visited |-> compile_order_packages(rows), extended |-> <<>>],
                             d_pages, rows, 1, max_depth)
       IN d_call' = [called |-> TRUE, rows |-> rows, max_depth |-> max_depth,
                     extended |-> st.extended, visited |-> st.visited]
    /\ UNCHANGED <<d_pages, graphVars, cacheVars, fetchVars, enhanceVars, poolVars,
                   rateVars, logVars, parserVars, extractVars>>

(***************************************************************************)
(* POMDependencyExtractor (pom_dependency_extractor.py):                   *)
(* extract_all_dependencies and create_leaves_csv                          *)
(***************************************************************************)
\* what _parse_pom_file gives for one POM file: a set of dependencies
PomContents == {{"x"}, {"y"}}

\* no call yet
NoExtract == [op |-> "none", result |-> {}, leaves |-> <<>>]

InitExtractVars ==
    /\ x_dir = <<>>
    /\ x_new = <<>>
    /\ x_call = NoExtract

\* one more *.pom file in the POM cache directory
WritePomFile(dependencies) ==
    /\ x_call.op = "none"
    /\ Len(x_dir) < MaxPomFiles
    /\ x_dir' = Append(x_dir, dependencies)
    /\ UNCHANGED <<x_new, x_call, graphVars, cacheVars, fetchVars, enhanceVars, poolVars,
                   rateVars, logVars, parserVars, resolveVars>>

\* extract_all_dependencies, lines 635-648: the while loop; glob gives every
\* file name once, so no file is skipped as processed
RECURSIVE ExtractLoop(_, _, _)
ExtractLoop(pom_queue, iteration, all_dependencies) ==
    IF pom_queue = <<>> \/ iteration >= max_iterations THEN all_dependencies
    ELSE ExtractLoop(Tail(pom_queue), iteration + 1,
                     all_dependencies \cup Head(pom_queue))

\* extract_all_dependencies; with recursive the inner loop only passes
extract_all_dependencies(recursive) ==
    /\ x_call.op = "none"
    /\ x_call' = [op |-> "extract", result |-> ExtractLoop(x_dir, 0, {}), leaves |-> <<>>]
    /\ UNCHANGED <<x_dir, x_new, graphVars, cacheVars, fetchVars, enhanceVars, poolVars,
                   rateVars, logVars, parserVars, resolveVars>>

\* identifiers (group:artifact:version) of dependencies: CompileOrderId is in
\* compile-order.csv, the others are not
CompileOrderId == 0

\* compile_order_deps: its "full" and "group_artifact_version" sets
compile_order_deps == {CompileOrderId}

\* entries of new_dependencies that repeat an earlier entry or are in
\* compile-order.csv
NumRepeated(new_dependencies) ==
    Cardinality({i \in 1..Len(new_dependencies) :
                    \/ new_dependencies[i] \in compile_order_deps
                    \/ \E j \in 1..(i - 1) : new_dependencies[j] = new_dependencies[i]})

\* one more entry in new_dependencies: an identifier not seen before, or, up
\* to MaxRepeated times, the first identifier again or one in compile-order.csv
AppendNewDependency(dep_id) ==
    /\ x_call.op = "none"
    /\ Len(x_new) < MaxNewDeps
    /\ \/ dep_id = Len(x_new) + 1
       \/ /\ dep_id \in compile_order_deps \cup {1}
          /\ dep_id \in compile_order_deps \cup Range(x_new)
          /\ NumRepeated(x_new) < MaxRepeated
    /\ x_new' = Append(x_new, dep_id)
    /\ UNCHANGED <<x_dir, x_call, graphVars, cacheVars, fetchVars, enhanceVars, poolVars,
                   rateVars, logVars, parserVars, resolveVars>>

\* create_leaves_csv, lines 844-908 without a downloader: the while loop that
\* fills all_leaves
RECURSIVE LeavesLoop(_, _, _, _)
LeavesLoop(to_process, iteration, added_dependencies, all_leaves) ==
    IF to_process = <<>> \/ iteration >= leaves_max_iterations THEN all_leaves
    ELSE LET dep_id == Head(to_process)
         IN IF dep_id \in added_dependencies \/ dep_id \in compile_order_deps
            THEN LeavesLoop(Tail(to_process), iteration + 1, added_dependencies, all_leaves)
            ELSE LeavesLoop(Tail(to_process), iteration + 1,
                            added_dependencies \cup {dep_id}, Append(all_leaves, dep_id))

\* create_leaves_csv, lines 910-967: one row per entry of all_leaves, numbered
\* from 1
LeavesRows(all_leaves) ==
    [i \in 1..Len(all_leaves) |-> [order |-> i, id |-> all_leaves[i]]]

\* create_leaves_csv as main calls it: pom_downloader=None, recursive=False
create_leaves_csv ==
    /\ x_call.op = "none"
    /\ x_call' = [op |-> "leaves", result |-> {},
                  leaves |-> LeavesRows(LeavesLoop(x_new, 0, {}, <<>>))]
    /\ UNCHANGED <<x_dir, x_new, graphVars, cacheVars, fetchVars, enhanceVars, poolVars,
                   rateVars, logVars, parserVars, resolveVars>>

InitResolve ==
    /\ InitGraphVars
    /\ InitCacheVars /\ c_sbom = "s1"
    /\ InitFetchVars
    /\ InitEnhanceVars
    /\ InitPoolVars
    /\ InitRateVars
    /\ InitLogVars
    /\ InitParserVars
    /\ InitResolveVars
    /\ InitExtractVars

NextResolve ==
    \/ \E p \in Packages, q \in Packages : PublishDependency(p, q)
    \/ \E rows \in CompileOrderRows, max_depth \in 1..MaxDepth :
          resolve_from_compile_order_csv(rows, max_depth)

SpecResolve == InitResolve /\ [][NextResolve]_vars

InitExtract ==
    /\ InitGraphVars
    /\ InitCacheVars /\ c_sbom = "s1"
    /\ InitFetchVars
    /\ InitEnhanceVars
    /\ InitPoolVars
    /\ InitRateVars
    /\ InitLogVars
    /\ InitParserVars
    /\ InitResolveVars
    /\ InitExtractVars

NextExtract ==
    \/ \E dependencies \in PomContents : WritePomFile(dependencies)
    \/ \E recursive \in BOOLEAN : extract_all_dependencies(recursive)

SpecExtract == InitExtract /\ [][NextExtract]_vars

NextLeaves ==
    \/ \E dep_id \in 0..MaxNewDeps : AppendNewDependency(dep_id)
    \/ create_leaves_csv

SpecLeaves == InitExtract /\ [][NextLeaves]_vars

InitEnhance ==
    /\ InitGraphVars
    /\ InitCacheVars /\ c_sbom = "s1"
    /\ InitFetchVars
    /\ InitEnhanceVars
    /\ InitPoolVars
    /\ InitRateVars
    /\ InitLogVars
    /\ InitParserVars
    /\ InitResolveVars
    /\ InitExtractVars

NextEnhance ==
    \/ \E rows \in CompileOrderFiles, pom_downloader \in BOOLEAN, same_dir \in BOOLEAN,
          incremental_update \in BOOLEAN :
          StartEnhance(rows, pom_downloader, same_dir, incremental_update)
    \/ \E result \in PomOutcomes : ProcessRow(result)
    \/ \E r \in ERows : DeletePom(r)

SpecEnhance == InitEnhance /\ [][NextEnhance]_vars

InitPool ==
    /\ InitGraphVars
    /\ InitCacheVars /\ c_sbom = "s1"
    /\ InitFetchVars
    /\ InitEnhanceVars
    /\ \E in \in PoolInputs :
          /\ p_cfg = in.cfg
          /\ p_csv = in.csv
    /\ p_main = "new"
    /\ p_wait = "none"
    /\ p_worker = "none"
    /\ p_running = FALSE
    /\ p_tasks = <<>>
    /\ p_results = <<>>
    /\ InitRateVars
    /\ InitLogVars
    /\ InitParserVars
    /\ InitResolveVars
    /\ InitExtractVars

\* the steps of the background thread and of the threads of its pool
WorkerSteps ==
    \/ WorkerSetsRunning
    \/ WorkerSubmits
    \/ \E i \in 1..MaxTasks : TaskStarts(i)
    \/ \E i \in 1..MaxTasks, outcome \in DownloadOutcomes : TaskReturns(i, outcome)
    \/ \E i \in 1..MaxTasks : WorkerRecords(i)
    \/ WorkerEnds

NextPool ==
    \/ start_background_downloads
    \/ WorkerSteps
    \/ \E timeout \in BOOLEAN : wait_for_completion(timeout)

SpecPool == InitPool /\ [][NextPool]_vars

\* the threads are scheduled while the process runs, and every call of a
\* downloader returns or raises (its requests and subprocesses have timeouts)
SpecPoolFair == SpecPool /\ WF_vars(WorkerSteps)

InitRate ==
    /\ InitGraphVars
    /\ InitCacheVars /\ c_sbom = "s1"
    /\ InitFetchVars
    /\ InitEnhanceVars
    /\ InitPoolVars
    /\ InitRateVars
    /\ InitLogVars
    /\ InitParserVars
    /\ InitResolveVars
    /\ InitExtractVars

NextRate ==
    \/ \E t \in RateThreads : RateLimitEnter(t)
    \/ \E t \in RateThreads : RateLimitLeave(t)
    \/ Tick

SpecRate == InitRate /\ [][NextRate]_vars

InitLog ==
    /\ InitGraphVars
    /\ InitCacheVars /\ c_sbom = "s1"
    /\ InitFetchVars
    /\ InitEnhanceVars
    /\ InitPoolVars
    /\ InitRateVars
    /\ InitLogVars
    /\ InitParserVars
    /\ InitResolveVars
    /\ InitExtractVars

NextLog ==
    \/ \E kind \in LogKinds, verbose \in BOOLEAN, cached \in BOOLEAN,
          response \in {"valid", "error"} : LogStart(kind, verbose, cached, response)
    \/ \E write_ok \in BOOLEAN : LogCachedLine(write_ok)
    \/ \E write_ok \in BOOLEAN : LogUrlLine(write_ok)
    \/ \E write_ok \in BOOLEAN : LogSaveLine(write_ok)
    \/ \E write_ok \in BOOLEAN : LogAfterSaveLine(write_ok)
    \/ \E write_ok \in BOOLEAN : LogWriteHandlerLine(write_ok)
    \/ \E write_ok \in BOOLEAN : LogOuterHandler(write_ok)
    \/ LogReturn

SpecLog == InitLog /\ [][NextLog]_vars

InitParser ==
    /\ InitGraphVars
    /\ InitCacheVars /\ c_sbom = "s1"
    /\ InitFetchVars
    /\ InitEnhanceVars
    /\ InitPoolVars
    /\ InitRateVars
    /\ InitLogVars
    /\ InitParserVars
    /\ InitResolveVars
    /\ InitExtractVars

NextParser ==
    \/ SBOMParser
    \/ parse
    \/ \E file \in SbomFiles : WriteSbomFile(file)
    \/ RemoveSbomFile

SpecParser == InitParser /\ [][NextParser]_vars

NextUrl ==
    \/ \E a \in UrlArgs : CallBuildUrl(a)
    \/ UrlReturn

SpecUrl == InitParser /\ [][NextUrl]_vars

InitFetch ==
    /\ InitGraphVars
    /\ InitCacheVars /\ c_sbom = "s1"
    /\ f_cfg \in {c \in Cfgs : c.kind = "pom" => (c.poms \/ c.clone_repos)}
    /\ f_cache \in {"absent", "validated"}
    /\ f_call = [t \in Callers |-> NoCall]
    /\ InitEnhanceVars
    /\ InitPoolVars
    /\ InitRateVars
    /\ InitLogVars
    /\ InitParserVars
    /\ InitResolveVars
    /\ InitExtractVars

NextFetch ==
    \/ \E t \in Callers : StartCall(t)
    \/ \E t \in Callers, outcome \in MavenOutcomes : MavenStep(t, outcome)
    \/ \E t \in Callers, resp \in Responses(JarBodies), wo \in WriteOutcomes :
          PrimaryHttp(t, resp, wo)
    \/ \E t \in Callers, resp \in Responses(NpmBodies), wo \in WriteOutcomes :
          TarballHttp(t, resp, wo)
    \/ \E t \in Callers, resp \in Responses(PomBodies), wo \in WriteOutcomes :
          CentralHttp(t, resp, wo)
    \/ \E t \in Callers, outcome \in CloneOutcomes : CloneStep(t, outcome)
    \/ \E t \in Callers, resp \in Responses(PomBodies), wo \in WriteOutcomes :
          RawHttp(t, resp, wo)

SpecFetch == InitFetch /\ [][NextFetch]_vars

InitCache == InitGraphVars /\ InitCacheVars /\ InitFetchVars /\ InitEnhanceVars /\ InitPoolVars
    /\ InitRateVars
    /\ InitLogVars
    /\ InitParserVars
    /\ InitResolveVars
    /\ InitExtractVars

NextCache ==
    \/ \E args \in Args : StartRun(args)
    \/ ParseFails
    \/ ParseOk
    \/ Decide
    \/ WriteOrReuseBase
    \/ Enhance
    \/ ParallelRaises
    \/ FormatAgain
    \/ FormatRaises
    \/ \E bytes \in SbomContents \cup {BadSbom} : EditSbom(bytes)
    \/ \E path \in Paths : EditOutput(path, Edited)

SpecCache == InitCache /\ [][NextCache]_vars

InitDigest ==
    /\ InitGraphVars
    /\ InitCacheVars /\ c_sbom = "s1"
    /\ InitFetchVars
    /\ InitEnhanceVars
    /\ InitPoolVars
    /\ InitRateVars
    /\ InitLogVars
    /\ InitParserVars
    /\ InitResolveVars
    /\ InitExtractVars

NextDigest ==
    \/ \E args \in DigestArgs : StartRun(args)
    \/ ParseFails
    \/ ParseOk
    \/ Decide
    \/ WriteOrReuseBase
    \/ Enhance
    \/ FormatAgain
    \/ \E bytes \in SbomContents \cup {BadSbom} : EditSbom(bytes)
    \/ EditOutput("default", Edited)
    \/ \E name \in DigestFiles : LoseDigest(name)

SpecDigest == InitDigest /\ [][NextDigest]_vars

InitGraph ==
    InitGraphVars /\ InitCacheVars /\ c_sbom = "s1" /\ InitFetchVars /\ InitEnhanceVars /\ InitPoolVars
    /\ InitRateVars
    /\ InitLogVars
    /\ InitParserVars
    /\ InitResolveVars
    /\ InitExtractVars

NextGraph ==
    \/ \E id \in Ids : add_component(id)
    \/ \E c \in Ids, d \in Ids : add_dependency(c, d)
    \/ \E cs \in ParserComponents, ds \in ParserDependencies : build_from_parser(cs, ds)
    \/ get_compilation_order
    \/ get_statistics

SpecGraph == InitGraph /\ [][NextGraph]_vars

(***************************************************************************)
(* Properties of the compilation order                                     *)
(***************************************************************************)
\* the graph holds a directed cycle (a self-loop counts)
HasCycle == \E v \in Range(g_nodes) : v \in ReachFrom(g_succ, Range(g_nodes), v)

Predecessors(succ, v) == {u \in Ids : v \in Range(succ[u])}

\* nx.topological_generations: the generation of a node of an acyclic graph is
\* the length of the longest path that ends in it
RECURSIVE Generation(_, _)
Generation(succ, v) ==
    IF Predecessors(succ, v) = {} THEN 0
    ELSE LET gens == {Generation(succ, u) : u \in Predecessors(succ, v)}
         IN 1 + CHOOSE m \in gens : \A k \in gens : k <= m

\* the nodes that may be emitted after the list emitted: not emitted yet, all
\* predecessors emitted
Ready(emitted) ==
    {v \in Range(g_nodes) \ Range(emitted) :
        Predecessors(g_succ, v) \subseteq Range(emitted)}

FirstAdded(S) == CHOOSE v \in S : \A w \in S : IndexOf(g_nodes, v) <= IndexOf(g_nodes, w)

\* C1: the list returned by get_compilation_order holds every node id of the
\* graph exactly once, with or without cycles.
C1_Totality ==
    g_called => /\ Len(g_order) = Len(g_nodes)
                /\ Range(g_order) = Range(g_nodes)
                /\ \A i, j \in 1..Len(g_order) : i # j => g_order[i] # g_order[j]

\* two cycles that share the edge a -> b, one of them next to a self-loop
C1_Witness ==
    /\ g_called
    /\ g_circular
    /\ {<<"a", "b">>, <<"b", "a">>, <<"b", "c">>, <<"c", "a">>} \subseteq EdgesOf(g_succ)

\* C2: in an acyclic graph every dependency precedes its dependent in the
\* returned list (an edge runs from the dependency to the dependent), and the
\* returned flag is false.
C2_AcyclicOrder ==
    (g_called /\ ~HasCycle) =>
        /\ ~g_circular
        /\ \A e \in EdgesOf(g_succ) :
              /\ IndexOf(g_order, e[1]) > 0
              /\ IndexOf(g_order, e[1]) < IndexOf(g_order, e[2])

C2_Witness ==
    /\ g_called
    /\ ~HasCycle
    /\ NumEdges(g_succ) >= 3
    /\ g_order # g_nodes

\* C3: the returned flag is true exactly when the graph holds a directed cycle.
C3_CycleFlag == g_called => (g_circular <=> HasCycle)

\* a cyclic graph whose cycles were broken: the order is not the fallback
C3_Witness ==
    /\ g_called
    /\ g_circular
    /\ Len(g_nodes) = 3
    /\ g_order # g_nodes

\* C4: when the digest of the current SBOM differs from the digest that was
\* persisted before the run started, the run regenerates the base order file,
\* even if that file's digest still matches its own persisted digest.
C4_SourceChangeRegenerates ==
    (/\ c_pc = "decided"
     /\ h_start.sbom_md5 # None
     /\ h_start.sbom_md5 # c_run.sbom_hash)
    => c_run.needs_regen

\* C5: when the filter configuration differs from the one of the previous
\* completed run and the SBOM is byte-identical, the run regenerates the base
\* order file.
C5_FilterChangeRegenerates ==
    (/\ c_pc = "decided"
     /\ h_last.done
     /\ h_last.sbom = c_sbom
     /\ h_last.opts.filters # c_opts.filters)
    => c_run.needs_regen

\* C6: from the decision to reuse the base order file until the run ends, no
\* step changes the bytes of the file at the output path, whatever the args.
C6_ReuseLeavesBaseFile ==
    [][(c_pc \in {"decided", "based", "enhanced"} /\ ~c_run.needs_regen)
       => c_files'[c_opts.output] = h_start.base]_vars

\* C7: a run that follows a completed run with the same SBOM bytes and the
\* same args, no file having been changed from outside in between, decides
\* to reuse the base order file.
C7_SecondRunReuses ==
    (/\ c_pc = "decided"
     /\ h_last.done
     /\ h_last.sbom = c_sbom
     /\ h_last.opts = c_opts)
    => ~c_run.needs_regen

\* the positions in a call's history where a URL was requested over HTTP
Requests(c) == {k \in 1..Len(c.tried) : c.tried[k].step \in {"primary", "tarball", "central", "raw"}}

\* C8: for one cache key, no URL is requested more than once in a process
\* run, however many callers ask for the artifact.
C8_OneRequestPerKey ==
    \A t1 \in Callers, t2 \in Callers :
        \A k1 \in Requests(f_call[t1]), k2 \in Requests(f_call[t2]) :
            f_call[t1].tried[k1] = f_call[t2].tried[k2] => (t1 = t2 /\ k1 = k2)

\* C9: the step of download_package (jar/war or npm) that receives HTTP 200
\* with an empty body, or with a body that lacks the archive's magic bytes or
\* does not open as an archive, creates no file at the cache path and ends the
\* call with a result that is not success, having requested the URL once.
C9_InvalidBodyNotCached ==
    [][\A t \in Callers :
          LET c == f_call'[t]
              b == c.last.body
              magic == IF f_cfg.kind = "jar" THEN "zip" ELSE "gzip"
          IN (/\ f_cfg.kind \in {"jar", "npm"}
              /\ f_call[t].pc \in {"primary", "tarball"}
              /\ c # f_call[t]
              /\ c.last.status = "200"
              /\ (b.len = 0 \/ b.magic # magic \/ ~b.wellformed))
             => (/\ f_cache' = f_cache
                 /\ c.pc = "done"
                 /\ ~c.result.file
                 /\ Cardinality({k \in Requests(c) : c.tried[k] = c.tried[Len(c.tried)]}) = 1)]_vars

C9_Witness ==
    \E t \in Callers :
        /\ f_cfg.kind = "jar"
        /\ f_call[t].pc = "done"
        /\ f_call[t].last.status = "200"
        /\ f_call[t].last.body = Body(200, "zip", FALSE, FALSE)
        /\ ~f_call[t].result.file
        /\ f_cache = "absent"

\* C10 as stated: once a step of a call has reported auth-required, the call
\* tries nothing further and returns auth-required, in download_package and
\* in every branch of download_pom.
C10_AuthStopsChain ==
    \A t \in Callers :
        LET c == f_call[t]
        IN c.auth_at > 0 =>
              /\ Len(c.tried) = c.auth_at
              /\ c.pc = "done"
              /\ c.result = Result(FALSE, TRUE)

\* C10, amended: auth-required ends the call at once in download_package and
\* in the Maven Central and clone branches of download_pom; in the loop over
\* the raw URLs the remaining URLs are still requested, and the call returns
\* auth-required only when none of them gave a matching POM that was cached.
C10_AuthStopsChainOutsideRawLoop ==
    \A t \in Callers :
        LET c == f_call[t]
        IN c.auth_at > 0 =>
              IF c.tried[c.auth_at].step = "raw"
              THEN c.pc = "done" =>
                      \/ c.result = Result(TRUE, FALSE)
                      \/ /\ c.result = Result(FALSE, TRUE)
                         /\ c.tried[Len(c.tried)] = [step |-> "raw", i |-> MaxRawUrls]
              ELSE /\ Len(c.tried) = c.auth_at
                   /\ c.pc = "done"
                   /\ c.result = Result(FALSE, TRUE)

C10_Witness ==
    \E t \in Callers :
        /\ f_call[t].pc = "done"
        /\ f_call[t].auth_at > 0
        /\ f_call[t].tried[f_call[t].auth_at].step = "raw"
        /\ Len(f_call[t].tried) > f_call[t].auth_at
        /\ f_call[t].result = Result(TRUE, FALSE)

\* the call has ended on the answer of the primary URL, and that answer had
\* one of the given statuses
EndedOnPrimary(c, statuses) ==
    /\ c.pc = "done"
    /\ Len(c.tried) > 0
    /\ c.tried[Len(c.tried)].step = "primary"
    /\ c.last.status \in statuses

\* C11: download_package does not end on a 404 of the primary URL: it goes on
\* to the fallback mirror URL, and it does not raise.
C11_FallbackOn404 ==
    \A t \in Callers :
        /\ ~EndedOnPrimary(f_call[t], {"404"})
        /\ ~f_call[t].result.raised

\* C12 as stated: download_package does not end on an HTTP error other than
\* 401, 403, 404 or on a transport error of the primary URL: it goes on to
\* the fallback mirror URL.
C12_FallbackOnOtherErrors ==
    \A t \in Callers : ~EndedOnPrimary(f_call[t], {"500", "URLError"})

\* C12, amended: an HTTP error other than 401, 403, 404, or a transport
\* error, of the primary URL ends download_package at once with (None, False);
\* no further URL is requested.
C12_OtherErrorsEndCall ==
    \A t \in Callers :
        LET c == f_call[t]
        IN (/\ Len(c.tried) > 0
            /\ c.tried[Len(c.tried)].step = "primary"
            /\ c.last.status \in {"500", "URLError"})
           => (/\ c.pc = "done"
               /\ ~c.result.file /\ ~c.result.auth /\ ~c.result.raised)

C12_Witness ==
    \E t \in Callers :
        /\ EndedOnPrimary(f_call[t], {"URLError"})
        /\ Len(f_call[t].tried) = 2
        /\ f_call[t].tried[1].step = "mvn"

RecordedAndPresent ==
    LET existing == e_existing[e_order[e_i]]
    IN /\ existing.downloaded = "yes"
       /\ existing.file_location # NoLocation
       /\ existing.file_location[2] \in e_poms

\* C14: with a POM downloader configured, for a Maven row with group, name
\* and version, download_pom is not called when the previous row with the same
\* key records Downloaded = yes and a File Location that is still on disk, and
\* it is called otherwise.
C14_SkipDecision ==
    [][(/\ e_pc = "rows"
        /\ e_cfg.pom_downloader
        /\ IsMaven(e_order[e_i]) /\ HasCoordinates(e_order[e_i]))
       => e_calls' = IF RecordedAndPresent THEN e_calls
                     ELSE Append(e_calls, e_order[e_i])]_vars

\* C15: a row whose recorded download is reused gets the Downloaded status and
\* the File Location of the previous row.
C15_ReusedVerbatim ==
    [][(/\ e_pc = "rows"
        /\ e_cfg.pom_downloader /\ e_cfg.same_dir
        /\ RecordedAndPresent)
       => LET existing == e_existing[e_order[e_i]]
              new == e_enhanced'.rows[Len(e_enhanced'.rows)]
          IN /\ e_calls' = e_calls
             /\ new.downloaded = existing.downloaded
             /\ new.file_location = existing.file_location]_vars

(***************************************************************************)
(* Properties of the enrichment stage of main                              *)
(***************************************************************************)
\* C16: create_enhanced_csv runs as an incremental update, taking the
\* metadata of the previous rows, only if the digest of the base order file
\* equals the digest that was persisted when the run started; a base order
\* file regenerated in this run with other content is not enriched
\* incrementally.
C16_IncrementalOnlyWhenBaseUnchanged ==
    (/\ c_pc = "enhanced"
     /\ c_opts.maven_central_lookup
     /\ c_run.incremental)
    => calculate_file_hash(c_files[c_opts.output]) = h_start.compile_order_md5

(***************************************************************************)
(* Properties of ParallelDownloader                                        *)
(***************************************************************************)
\* C17: when the background worker has finished, _results holds exactly one
\* entry for each submitted task, with the task's component and file type; the
\* entry of a task whose downloader raised is a failure, and the other tasks
\* were run and recorded all the same.
C17_OneEntryPerTask ==
    p_worker = "done" =>
        LET submitted == DownloadTasks(p_csv, p_cfg)
        IN /\ Len(p_results) = Len(submitted)
           /\ \A i \in 1..Len(submitted) :
                 /\ Cardinality({k \in 1..Len(p_results) : p_results[k].task = i}) = 1
                 /\ \A k \in 1..Len(p_results) :
                       p_results[k].task = i =>
                          /\ p_results[k].component_id = submitted[i].comp
                          /\ p_results[k].file_type = submitted[i].file_type
                          /\ p_tasks[i].raised => ~p_results[k].success

\* the first task raised, and a task that returned after it succeeded
C17_Witness ==
    /\ p_worker = "done"
    /\ Len(p_results) >= 2
    /\ p_tasks[p_results[1].task].raised
    /\ \E k \in 2..Len(p_results) : p_results[k].success

\* C18: wait_for_completion returns True only when the background worker has
\* processed all its tasks; a call made right after start_background_downloads
\* returned does not return True while tasks are pending.
C18_TrueMeansCompleted ==
    p_wait = "True"
    => /\ p_worker = "done"
       /\ Len(p_results) = Len(DownloadTasks(p_csv, p_cfg))

\* C19: after a timed wait has returned without completion the worker goes
\* on: every task finishes and is recorded, and _running becomes False.
C19_WorkerGoesOnAfterTimeout ==
    (p_wait = "False")
    ~> (/\ p_worker = "done"
        /\ ~p_running
        /\ Len(p_results) = Len(DownloadTasks(p_csv, p_cfg))
        /\ \A i \in 1..Len(p_tasks) : p_tasks[i].state = "recorded")

\* the wait timed out while a task was queued and another was executing
C19_Witness ==
    /\ p_wait = "False"
    /\ \E i \in 1..Len(p_tasks) : p_tasks[i].state = "queued"
    /\ \E i \in 1..Len(p_tasks) : p_tasks[i].state = "running"

\* C20: at most max_workers tasks are executing at any moment, however many
\* were submitted.
C20_AtMostMaxWorkers ==
    Cardinality(Executing(p_tasks)) <= max_workers

\* more tasks than threads: the pool is full and a task is waiting
C20_Witness ==
    /\ Cardinality(Executing(p_tasks)) = max_workers
    /\ \E i \in 1..Len(p_tasks) : p_tasks[i].state = "queued"

\* C21: any two requests of one registry client start at least
\* RATE_LIMIT_DELAY apart, also when _rate_limit is entered by several
\* threads concurrently.
C21_RequestsSpacedByDelay ==
    \A i \in 1..Len(r_requests) : \A j \in 1..Len(r_requests) :
        i < j => r_requests[j] - r_requests[i] >= RATE_LIMIT_DELAY

\* C22: in the order returned for an acyclic graph, each position holds,
\* among the nodes whose predecessors have all been emitted before it, the
\* node that was added to the graph first.
C22_FirstAddedReadyNode ==
    (g_called /\ ~HasCycle) =>
        \A k \in 1..Len(g_order) :
            g_order[k] = FirstAdded(Ready(SubSeq(g_order, 1, k - 1)))

\* C22 as the code has it: the order is layer by layer.  A node of an
\* earlier generation precedes every node of a later one; the nodes without
\* predecessors keep the order in which they were added; a later node whose
\* last-emitted predecessor precedes that of another node precedes it.
C22_LayerByLayer ==
    (g_called /\ ~HasCycle) =>
        \A u \in Range(g_nodes), v \in Range(g_nodes) :
            LET gu == Generation(g_succ, u)
                gv == Generation(g_succ, v)
                last(x) == CHOOSE m \in {IndexOf(g_order, p) : p \in Predecessors(g_succ, x)} :
                               \A p \in Predecessors(g_succ, x) : IndexOf(g_order, p) <= m
            IN /\ gu < gv => IndexOf(g_order, u) < IndexOf(g_order, v)
               /\ (gu = 0 /\ gv = 0 /\ IndexOf(g_nodes, u) < IndexOf(g_nodes, v))
                     => IndexOf(g_order, u) < IndexOf(g_order, v)
               /\ (gu > 0 /\ gv > 0 /\ last(u) < last(v))
                     => IndexOf(g_order, u) < IndexOf(g_order, v)

\* a node of the second layer was added before a node of the first one and
\* is ready as soon as its predecessor is out: the first-added rule would
\* emit it second, the code emits it last
C22_Witness ==
    /\ g_called
    /\ ~HasCycle
    /\ Len(g_nodes) = 3
    /\ \E u \in Range(g_nodes), v \in Range(g_nodes) :
          /\ Generation(g_succ, u) = 0
          /\ Generation(g_succ, v) = 1
          /\ IndexOf(g_nodes, v) < IndexOf(g_nodes, u)
          /\ IndexOf(g_order, u) = 2
          /\ IndexOf(g_order, v) = 3

\* C23: get_statistics reports has_circular_dependencies = true exactly when
\* the graph holds a directed cycle, so that it agrees with the flag
\* get_compilation_order returns for the same graph.
C23_StatisticsCycleFlag ==
    g_stats.exists =>
        /\ g_stats.has_circular_dependencies <=> HasCycle
        /\ g_called => (g_stats.has_circular_dependencies <=> g_circular)

\* C24: build_from_parser adds an edge only if both of its refs are keys of
\* the components map; a dependency entry with an unknown ref adds no edge
\* and no node: afterwards every node and both ends of every edge are keys.
C24_OnlyKnownRefs ==
    [][\A cs \in ParserComponents, ds \in ParserDependencies :
          build_from_parser(cs, ds) =>
              /\ Range(g_nodes') \subseteq Range(cs)
              /\ \A ed \in EdgesOf(g_succ') : ed[1] \in Range(cs) /\ ed[2] \in Range(cs)]_vars

\* C25: a run that starts with the digest file of the SBOM or of
\* compile-order.csv missing or unreadable regenerates compile-order.csv and
\* leaves both digests saved.
C25_MissingDigestRegenerates ==
    (c_pc = "based" /\ (h_start.sbom_md5 = None \/ h_start.compile_order_md5 = None)) =>
        /\ c_run.needs_regen
        /\ c_md5.sbom = c_run.sbom_hash
        /\ c_md5.compile_order = calculate_file_hash(c_files[c_opts.output])

\* C26: a failure to write a log line never raises out of a download
\* operation and never changes its result: the operation returns what it
\* returns when every line is written.
C26_LogFailureIsHarmless ==
    l_call.pc = "done" => l_call.result = l_call.expected

\* C27: SBOMParser.parse raises FileNotFoundError when the file does not
\* exist and ValueError when the root of the document is not an object or
\* its bomFormat is not CycloneDX; in each of these cases the parser holds
\* no component and no dependency entry.
C27_ParseRejects ==
    s_parser.called =>
        LET file == s_parser.seen
        IN /\ file.kind = "missing" => s_parser.outcome = "FileNotFoundError"
           /\ (file.kind = "json" /\ file.root # "object") => s_parser.outcome = "ValueError"
           /\ (file.kind = "json" /\ file.root = "object" /\ file.bomFormat # "CycloneDX")
                 => s_parser.outcome = "ValueError"
           /\ s_parser.outcome \in {"FileNotFoundError", "ValueError"}
                 => s_parser.components = <<>> /\ s_parser.dependencies = <<>>

\* a document that lists components and a dependency entry but is not
\* CycloneDX has been rejected
C27_Witness ==
    /\ s_parser.called
    /\ s_parser.seen.kind = "json"
    /\ s_parser.seen.root = "object"
    /\ s_parser.seen.bomFormat = "SPDX"
    /\ Len(s_parser.seen.components) = 2
    /\ Len(s_parser.seen.dependencies) = 1
    /\ s_parser.outcome = "ValueError"

\* C28: build_maven_central_url accepts a base_url argument and returns
\* base_url/group with slashes/artifact/version/artifact-version.file_type
\* for the file types jar, pom, war and ear.
C28_UrlUnderBaseUrl ==
    (/\ u_call.called
     /\ u_call.args.base_url # NotGiven
     /\ u_call.args.group # <<>> /\ u_call.args.artifact # "" /\ u_call.args.version # ""
     /\ u_call.args.file_type \in {"jar", "pom", "war", "ear"}) =>
        /\ u_call.result.raised = "none"
        /\ u_call.result.url =
              <<u_call.args.base_url>> \o u_call.args.group
              \o <<u_call.args.artifact, u_call.args.version,
                   FileName(u_call.args.artifact, u_call.args.version, u_call.args.file_type)>>

\* C29: in every reachable state the file at the cache path of an artifact
\* of PackageDownloader, if there is one, has passed validation: no
\* unvalidated or partly written file is visible there or left behind by a
\* failed attempt.
C29_CacheFileValidated ==
    f_cfg.kind = "jar" => f_cache \in {"absent", "validated"}

\* C30: no two distinct download tasks of one run write the same cache
\* file: two tasks of the same kind, also for rows that repeat the same
\* group:artifact:version, have different cache paths.
C30_DistinctCachePaths ==
    \A i \in 1..Len(p_tasks), j \in 1..Len(p_tasks) :
        (i # j /\ p_tasks[i].file_type = p_tasks[j].file_type)
            => CachePath(p_tasks[i]) # CachePath(p_tasks[j])

\* C31: a run that aborts because the SBOM cannot be parsed leaves every
\* persisted digest as it was when the run started.
C31_AbortLeavesDigests ==
    [][ParseFails =>
          /\ c_md5'.sbom = h_start.sbom_md5
          /\ c_md5'.compile_order = h_start.compile_order_md5]_vars

\* C32: in the cycle case the returned order still places the dependency
\* before the dependent for every edge that lies on no directed cycle.
C32_AcyclicEdgesKept ==
    (g_called /\ g_circular) =>
        \A ed \in EdgesOf(g_succ) :
            (ed[1] # ed[2] /\ ed[1] \notin ReachFrom(g_succ, Range(g_nodes), ed[2]))
                => IndexOf(g_order, ed[1]) < IndexOf(g_order, ed[2])

\* C33: get_compilation_order never changes the graph: the nodes and the
\* edges are the same after the call as before it, also in the cycle case
\* (the steps in which g_called becomes true are the calls).
C33_OrderLeavesGraph ==
    [][(~g_called /\ g_called') => (g_nodes' = g_nodes /\ g_succ' = g_succ)]_vars

\* the call has returned for a graph whose cycle was broken on the copy
C33_Witness ==
    /\ g_called
    /\ g_circular
    /\ g_order # g_nodes
    /\ NumEdges(g_succ) >= 3

\* C34: when the Maven step fails with auth-like text in the output of mvn,
\* download_package goes on to the primary HTTP step: the call does not end
\* at the Maven step.
C34_MavenAuthFallsThrough ==
    \A t \in Callers :
        LET c == f_call[t]
        IN (Len(c.tried) >= 1 /\ c.tried[1].step = "mvn" /\ c.auth_at = 1)
              => ~(c.pc = "done" /\ Len(c.tried) = 1)

\* C34 as the code has it: auth-like text in the output of mvn ends the call
\* with auth-required and nothing further is tried; every other failure of
\* the Maven step falls through, so a call that ends at the Maven step
\* without auth-required has the file.
C34_MavenAuthEndsCall ==
    \A t \in Callers :
        LET c == f_call[t]
        IN (Len(c.tried) >= 1 /\ c.tried[1].step = "mvn") =>
              /\ c.auth_at = 1 =>
                    (c.pc = "done" /\ Len(c.tried) = 1 /\ c.result = Result(FALSE, TRUE))
              /\ (c.auth_at # 1 /\ c.pc = "done" /\ Len(c.tried) = 1)
                    => c.result = Result(TRUE, FALSE)

\* one call ended at the Maven step with auth-required, another went on to
\* the primary URL after a Maven failure of another kind
C34_Witness ==
    \E t \in Callers, u \in Callers :
        /\ f_call[t].pc = "done"
        /\ f_call[t].tried = <<[step |-> "mvn", i |-> 0]>>
        /\ f_call[t].auth_at = 1
        /\ Len(f_call[u].tried) = 2
        /\ f_call[u].tried[1].step = "mvn"
        /\ f_call[u].tried[2].step = "primary"

(***************************************************************************)
(* Properties of repeated calls of create_enhanced_csv                     *)
(***************************************************************************)
\* no two rows of the compile-order.csv being read have the same key
DistinctKeys == \A i, j \in 1..Len(e_order) : e_order[i] = e_order[j] => i = j

\* C35: with unchanged inputs, the POM cache below the directory of
\* compile-order.csv and every downloaded file still on disk, from the second
\* call on each call writes, for every row, the Downloaded and File
\* Location values the call before it wrote, and calls download_pom for no row.
C35_FixedPoint ==
    [][(/\ e_pc = "rows"
        /\ e_runs.n >= 3
        /\ e_cfg.same_dir
        /\ DistinctKeys)
       => LET existing == e_existing[e_order[e_i]]
              new == e_enhanced'.rows[Len(e_enhanced'.rows)]
          IN /\ e_calls' = e_calls
             /\ new.downloaded = existing.downloaded
             /\ new.file_location = existing.file_location]_vars

(***************************************************************************)
(* Properties of resolve_from_compile_order_csv                            *)
(***************************************************************************)
\* the packages reached from the packages S through one to k dependency hops
RECURSIVE WithinHops(_, _, _)
WithinHops(pages, S, k) ==
    IF k = 0 THEN {}
    ELSE LET listed == UNION {Range(pages[p]) : p \in S}
         IN listed \cup WithinHops(pages, listed, k - 1)

\* the keys of the dependency rows of the extended CSV, in the order written
DependencyKeys ==
    LET RECURSIVE Keys(_)
        Keys(i) == IF i > Len(d_call.extended) THEN <<>>
                   ELSE IF d_call.extended[i].is_original = 0
                        THEN <<d_call.extended[i].key>> \o Keys(i + 1)
                        ELSE Keys(i + 1)
    IN Keys(1)

\* C36: the extended CSV holds a dependency row for every package that is
\* reachable from a compile-order package through at most max_depth
\* dependency hops and is not a compile-order package itself, whatever the
\* order in which packages and dependencies are listed.
C36_ReachableWritten ==
    d_call.called =>
        \A q \in WithinHops(d_pages, Range(d_call.rows), d_call.max_depth) :
            PackageKey(q) \notin compile_order_packages(d_call.rows)
                => PackageKey(q) \in Range(DependencyKeys)

\* C37: no dependency row of the extended CSV has the group:artifact:version
\* of a compile-order.csv row or of another dependency row; every package
\* listed as a dependency of a compile-order package has a row of its own
\* version, as a compile-order row or as a dependency row; and the call
\* returns, writing each package at most once, also when the dependency
\* relation is cyclic.
C37_DistinctRows ==
    d_call.called =>
        /\ \A i, j \in 1..Len(DependencyKeys) :
               DependencyKeys[i] = DependencyKeys[j] => i = j
        /\ Range(DependencyKeys) \cap compile_order_packages(d_call.rows) = {}
        /\ \A q \in WithinHops(d_pages, Range(d_call.rows), 1) :
               \E i \in 1..Len(d_call.extended) :
                   d_call.extended[i].key = <<q.ga, q.version>>
        /\ Len(DependencyKeys) <= Cardinality(Packages)

\* a call over a cyclic dependency relation that wrote two versions of one
\* artifact as dependency rows
C37_Witness ==
    /\ d_call.called
    /\ \E p \in Range(d_call.rows) : p \in WithinHops(d_pages, {p}, MaxListed)
    /\ {<<"b", "1">>, <<"b", "2">>} \subseteq Range(DependencyKeys)

(***************************************************************************)
(* Properties of the POMDependencyExtractor                                *)
(***************************************************************************)
\* C38: extract_all_dependencies returns the union of the dependencies parsed
\* from every *.pom file of the POM cache directory, however many files there
\* are.
C38_UnionOfAllPoms ==
    x_call.op = "extract" => x_call.result = UNION Range(x_dir)

\* the identifiers of new_dependencies that are not in compile-order.csv, each
\* once, in the order of their first occurrence
RECURSIVE FirstOccurrences(_, _)
FirstOccurrences(s, seen) ==
    IF s = <<>> THEN <<>>
    ELSE IF Head(s) \in seen THEN FirstOccurrences(Tail(s), seen)
         ELSE <<Head(s)>> \o FirstOccurrences(Tail(s), seen \cup {Head(s)})

\* C39: create_leaves_csv with recursive=False writes one row for each
\* distinct identifier of new_dependencies that is not in compile-order.csv,
\* numbered from 1 in the order of first occurrence, however long
\* new_dependencies is.
C39_OneRowPerNewIdentifier ==
    x_call.op = "leaves" =>
        LET expected == FirstOccurrences(x_new, compile_order_deps)
        IN /\ Len(x_call.leaves) = Len(expected)
           /\ \A i \in 1..Len(expected) :
                  x_call.leaves[i] = [order |-> i, id |-> expected[i]]

=============================================================================
